---- MODULE Spec2Model ----
(***************************************************************************)
(* A model of the knowledge-state and path-scoring engine of the           *)
(* PersonalizedTutorAgent repository:                                      *)
(*   src/src/knowledge_tracing.py   SimplifiedDKT                          *)
(*   src/src/learner_profiling.py   LearnerProfile, LearnerProfileManager  *)
(*   src/src/learning_path.py       LearningPathGenerator,                 *)
(*                                  AdaptivePathManager                    *)
(*   src/src/adaptive_quiz.py       QuestionBank, AdaptiveQuizEngine,      *)
(*                                  DifficultyAdaptor                      *)
(* Each component has its own specification (SpecDKT, SpecProfile,         *)
(* SpecPath, SpecPathManager, SpecQuiz, SpecQuizRecord, SpecQuizSession,   *)
(* SpecAdaptor); the variables of the other components stay at their       *)
(* constructed values.                                                     *)
(*                                                                         *)
(* Numbers.  The code computes with Python floats.  The model computes     *)
(* with exact fractions, written as integers over a fixed denominator:     *)
(*   - a tracer mastery m is the integer m * Scale;                        *)
(*   - a tracer rate p is the integer p * Unit;                            *)
(*   - masteries, difficulties and accuracies given to the path generator, *)
(*     the quiz engine and the difficulty adaptor are in hundredths;       *)
(*   - a profile mastery is the pair <<num, den>> meaning num / den.       *)
(* Where the code orders values by a float it has computed, values that    *)
(* are equal as fractions but computed differently may be ordered either   *)
(* way (see PriorityOrders).                                               *)
(* A raised Python exception is the field err of the call's result.        *)
(***************************************************************************)
EXTENDS Integers, Sequences, FiniteSets, TLC

\* ------------------------------------------------------------------ bounds

\* The longest interaction table handed to trace_student.
MaxRows == 2

\* The number of interaction rows the profile manager processes.
MaxInteractions == 3

\* The number of get_next_difficulty calls between two resets of the adaptor.
MaxHistory == 5

\* The longest list of presented questions of a quiz session.
MaxPresented == 4

\* The number of responses recorded over the sessions of a quiz engine.
MaxRecorded == 2

\* The number of responses of the one long quiz session of SpecQuizSession.
MaxSession == 11

\* The number of create_initial_path and update_path calls on a path manager.
MaxPathCalls == 3

\* The number of rows processed and path calls made on the two managers of
\* SpecStudents together.
MaxStudentOps == 3

\* ------------------------------------------------------- shared definitions

\* The configured concept list (the `concepts` constructor argument).
concepts == <<"A", "B", "C">>

ConceptSet == {concepts[i] : i \in 1..Len(concepts)}

\* A concept id that is not in the configured list.
UnknownConcept == "X"

AllConcepts == ConceptSet \cup {UnknownConcept}

\* The value of a result field that the call did not produce.
NoValue == "no value"

\* The call record of a component no call has been made on.
NoCall == [op |-> "none", args |-> <<>>, err |-> "none", val |-> NoValue]

BoundedSeq(S, n) == UNION {[1..k -> S] : k \in 0..n}

\* The position of x in the sequence s (0 when absent).
IndexOf(s, x) ==
    IF \E i \in 1..Len(s) : s[i] = x
    THEN CHOOSE i \in 1..Len(s) : s[i] = x /\ \A j \in 1..(i - 1) : s[j] # x
    ELSE 0

Min(a, b) == IF a <= b THEN a ELSE b

Max(a, b) == IF a >= b THEN a ELSE b

VARIABLES
    \* SimplifiedDKT
    learning_rate,      \* self.learning_rate, in Unit-ths
    forget_rate,        \* self.forget_rate, in Unit-ths
    trace_pc,           \* position of the tracer's caller: "idle" (no call made),
                        \* "loop" (inside trace_student), "done" (a call returned
                        \* or raised, its result is in dkt_ret)
    student_data,       \* trace_student: the filtered, sorted rows still to replay
    knowledge,          \* trace_student: the local knowledge dict
    trajectory,         \* trace_student: the local trajectory list
    current_knowledge,  \* the dict object a caller passed to the last tracer call
    dkt_ret,            \* the last tracer call: operation, arguments, result
    \* LearnerProfileManager
    profiles,           \* self.profiles: student id -> LearnerProfile
    interactions_done,  \* rows processed so far
    prof_ret,           \* the last profile call: operation, arguments, result
    \* DifficultyAdaptor
    difficulty_idx,     \* self.difficulty_idx, 0-based as in the code
    current_difficulty, \* self.current_difficulty
    response_history,   \* self.response_history
    da_ret,             \* the last adaptor call: operation, arguments, the
                        \* difficulty_idx before it, result
    \* AdaptiveQuizEngine and its QuestionBank
    questions,          \* self.qbank.questions, in insertion order
    questions_presented,\* self.questions_presented
    responses,          \* self.responses
    quiz_ret,           \* the last engine call: operation, arguments, result
    \* LearningPathGenerator and AdaptivePathManager
    concept_difficulty, \* self.concept_difficulty, in hundredths
    prerequisites,      \* self.prerequisites: concept -> list of concepts
    path_pc,            \* position of generate_path's caller: "idle", or
                        \* "done" (the call returned, its result is in path_ret)
    nodes,              \* the node dicts the manager's lists refer to; a
                        \* reference is an index into this sequence
    student_paths,      \* self.student_paths: student id -> list of references
    path_history,       \* self.path_history: student id -> list of lists of
                        \* references
    path_calls,         \* calls made on the manager so far
    path_ret            \* the last path call: operation, arguments, result

dktVars == <<learning_rate, forget_rate, trace_pc, student_data, knowledge,
             trajectory, current_knowledge, dkt_ret>>

profVars == <<profiles, interactions_done, prof_ret>>

daVars == <<difficulty_idx, current_difficulty, response_history, da_ret>>

quizVars == <<questions, questions_presented, responses, quiz_ret>>

pathVars == <<concept_difficulty, prerequisites, path_pc, nodes, student_paths,
              path_history, path_calls, path_ret>>

vars == <<dktVars, profVars, daVars, quizVars, pathVars>>

\* What a component's actions leave alone: the other components.
notDKT == <<profVars, daVars, quizVars, pathVars>>

notProfile == <<dktVars, daVars, quizVars, pathVars>>

notAdaptor == <<dktVars, profVars, quizVars, pathVars>>

notQuiz == <<dktVars, profVars, daVars, pathVars>>

notPath == <<dktVars, profVars, daVars, quizVars>>

\* ============================================================ SimplifiedDKT

\* Rates are multiples of 1/Unit: 0.05 = 1/Unit, 0.10 = 2/Unit.
Unit == 20

\* Tracer masteries are multiples of 1/Scale.  Starting from a multiple of
\* 1/10, MaxRows + 1 updates by rates in Unit-ths stay exact.
Scale == 10 * Unit ^ (MaxRows + 1)

\* x * (a / Unit), for a rate a in Unit-ths.
Mul(x, a) == (x * a) \div Unit

\* (learning_rate, forget_rate) pairs the tracer is constructed with; <<2, 1>>
\* are the defaults 0.1 and 0.05, the others the ends and the middle of [0,1].
RatePairs == {<<2, 1>>, <<0, 0>>, <<10, 10>>, <<Unit, Unit>>}

\* self.initial_knowledge: every configured concept at the prior 0.3.
initial_knowledge == [c \in ConceptSet |-> (3 * Scale) \div 10]

\* self.transition_matrix: one entry per configured concept.
transition_matrix ==
    [c \in ConceptSet |-> [p_learn |-> learning_rate, p_forget |-> forget_rate,
                           p_correct_know |-> 9, p_correct_unknown |-> 1]]

\* predict_next_state with the two branches exchanged: a correct response
\* decays the mastery and an incorrect one improves it.
PredictNextState_BranchesSwapped(current, concept, is_correct) ==
    IF concept \notin DOMAIN transition_matrix \/ concept \notin DOMAIN current
    THEN [err |-> "KeyError", val |-> NoValue]
    ELSE LET trans == transition_matrix[concept]
             current_mastery == current[concept]
             improvement == Mul(Scale - current_mastery, trans.p_learn)
             decay == Mul(current_mastery, trans.p_forget)
             next == IF is_correct = 0
                     THEN Min(Scale, current_mastery + improvement)
                     ELSE Max(0, current_mastery - decay)
         IN [err |-> "none", val |-> [current EXCEPT ![concept] = next]]

\* predict_next_state whose improvement is taken from the mastery, not from
\* what is missing to 1: m + m * p_learn.
PredictNextState_ImprovementOfMastery(current, concept, is_correct) ==
    IF concept \notin DOMAIN transition_matrix \/ concept \notin DOMAIN current
    THEN [err |-> "KeyError", val |-> NoValue]
    ELSE LET trans == transition_matrix[concept]
             current_mastery == current[concept]
             improvement == Mul(current_mastery, trans.p_learn)
             decay == Mul(current_mastery, trans.p_forget)
             next == IF is_correct # 0
                     THEN Min(Scale, current_mastery + improvement)
                     ELSE Max(0, current_mastery - decay)
         IN [err |-> "none", val |-> [current EXCEPT ![concept] = next]]

\* predict_next_state that also lets every other concept of the dict decay
\* by p_forget.
PredictNextState_OthersDecay(current, concept, is_correct) ==
    IF concept \notin DOMAIN transition_matrix \/ concept \notin DOMAIN current
    THEN [err |-> "KeyError", val |-> NoValue]
    ELSE LET trans == transition_matrix[concept]
             current_mastery == current[concept]
             improvement == Mul(Scale - current_mastery, trans.p_learn)
             decay == Mul(current_mastery, trans.p_forget)
             next == IF is_correct # 0
                     THEN Min(Scale, current_mastery + improvement)
                     ELSE Max(0, current_mastery - decay)
         IN [err |-> "none",
             val |-> [c \in DOMAIN current |->
                        IF c = concept THEN next
                        ELSE current[c] - Mul(current[c], trans.p_forget)]]

\* predict_next_state: the result of the call, an error or the new dict.
\* The input dict is only read; the update is written to its copy.
PredictNextState(current, concept, is_correct) ==
    IF concept \notin DOMAIN transition_matrix \/ concept \notin DOMAIN current
    THEN [err |-> "KeyError", val |-> NoValue]
    ELSE LET trans == transition_matrix[concept]
             current_mastery == current[concept]
             improvement == Mul(Scale - current_mastery, trans.p_learn)
             decay == Mul(current_mastery, trans.p_forget)
             next == IF is_correct # 0
                     THEN Min(Scale, current_mastery + improvement)
                     ELSE Max(0, current_mastery - decay)
         IN [err |-> "none", val |-> [current EXCEPT ![concept] = next]]

\* predict_performance: 0.9 * mastery + 0.1 * (1 - mastery), in 10*Scale-ths.
PredictPerformance(state, concept) ==
    IF concept \notin DOMAIN transition_matrix \/ concept \notin DOMAIN state
    THEN [err |-> "KeyError", val |-> NoValue]
    ELSE LET trans == transition_matrix[concept]
             mastery == state[concept]
         IN [err |-> "none",
             val |-> trans.p_correct_know * mastery
                     + trans.p_correct_unknown * (Scale - mastery)]

\* The loop of estimate_steps_to_mastery with the cap tested after the
\* iteration it should forbid: steps <= 100 for steps < 100.
RECURSIVE StepsLoop_CapOffByOne(_, _, _, _)
StepsLoop_CapOffByOne(temp_mastery, steps, p_learn, mastery_threshold) ==
    IF temp_mastery < mastery_threshold /\ steps <= 100
    THEN StepsLoop_CapOffByOne(temp_mastery + Mul(Scale - temp_mastery, p_learn),
                               steps + 1, p_learn, mastery_threshold)
    ELSE steps

\* The while loop of estimate_steps_to_mastery.  The products of the loop are
\* rounded down to a multiple of 1/Scale where they are not one.
RECURSIVE StepsLoop(_, _, _, _)
StepsLoop(temp_mastery, steps, p_learn, mastery_threshold) ==
    IF temp_mastery < mastery_threshold /\ steps < 100
    THEN StepsLoop(temp_mastery + Mul(Scale - temp_mastery, p_learn),
                   steps + 1, p_learn, mastery_threshold)
    ELSE steps

\* estimate_steps_to_mastery: the mastery is read from the dict and compared
\* with the threshold before the concept's transition entry is looked up.
EstimateStepsToMastery(current, concept, mastery_threshold) ==
    IF concept \notin DOMAIN current
    THEN [err |-> "KeyError", val |-> NoValue]
    ELSE IF current[concept] >= mastery_threshold
    THEN [err |-> "none", val |-> 0]
    ELSE IF concept \notin DOMAIN transition_matrix
    THEN [err |-> "KeyError", val |-> NoValue]
    ELSE [err |-> "none",
          val |-> StepsLoop(current[concept], 0,
                            transition_matrix[concept].p_learn,
                            mastery_threshold)]

\* ---- inputs of the tracer calls

\* Masteries a caller's dict holds: 0, the prior 0.3, 0.5, 0.8 and 1.
MasteryInputs == {0, (3 * Scale) \div 10, Scale \div 2, (4 * Scale) \div 5, Scale}

\* The dicts a caller passes in: any set of keys, configured or not.
KnowledgeInputs ==
    UNION {[D -> MasteryInputs] : D \in {ConceptSet, AllConcepts, {"A"}, {"A", UnknownConcept}}}

\* The default mastery_threshold 0.8.
DefaultThreshold == (4 * Scale) \div 5

StudentIds == {1, 2}

\* Rows of the interaction table: student_id, timestamp, concept, score.
Rows ==
    [student_id : StudentIds, timestamp : {1, 2},
     concept : {"A", "B", UnknownConcept}, score : {0, 1}]

\* The filtered rows left in the order of the input table.
SortedByTimestamp_InputOrder(rows) == {rows}

\* The orders sort_values('timestamp') may leave the rows in: every
\* arrangement in non-decreasing timestamp order (the default sort kind does
\* not fix the order of equal timestamps).
SortedByTimestamp(rows) ==
    LET n == Len(rows)
        perms == {p \in [1..n -> 1..n] : \A i, j \in 1..n : i # j => p[i] # p[j]}
    IN {[i \in 1..n |-> rows[p[i]]] : p \in
            {q \in perms : \A i, j \in 1..n :
                i < j => rows[q[i]].timestamp <= rows[q[j]].timestamp}}

\* ---- the tracer's actions

DKTIdle ==
    /\ trace_pc = "idle"
    /\ student_data = <<>>
    /\ knowledge = initial_knowledge
    /\ trajectory = <<>>

DKTInit ==
    /\ \E rp \in RatePairs : learning_rate = rp[1] /\ forget_rate = rp[2]
    /\ DKTIdle
    /\ current_knowledge = initial_knowledge
    /\ dkt_ret = NoCall

\* trace_student, lines 99-106: filter, sort, initialise the locals.
TraceBegin ==
    /\ trace_pc = "idle"
    /\ \E interactions \in BoundedSeq(Rows, MaxRows), student_id \in StudentIds :
         LET mine == SelectSeq(interactions, LAMBDA r : r.student_id = student_id)
         IN /\ student_data' \in SortedByTimestamp(mine)
            /\ dkt_ret' = [op |-> "trace_student",
                           args |-> <<interactions, student_id>>,
                           err |-> "running", val |-> NoValue]
    /\ knowledge' = initial_knowledge
    /\ trajectory' = <<>>
    /\ trace_pc' = "loop"
    /\ UNCHANGED <<learning_rate, forget_rate, current_knowledge>>
    /\ UNCHANGED notDKT

\* trace_student, lines 108-123: one iteration of the loop.
TraceStep ==
    /\ trace_pc = "loop"
    /\ student_data # <<>>
    /\ LET row == Head(student_data)
           concept == row.concept
           correct == row.score
       IN IF concept \notin DOMAIN knowledge
          THEN \* knowledge[concept] raises; the locals are dropped
               /\ dkt_ret' = [dkt_ret EXCEPT !.err = "KeyError"]
               /\ trace_pc' = "done"
               /\ student_data' = <<>>
               /\ knowledge' = initial_knowledge
               /\ trajectory' = <<>>
          ELSE LET r == PredictNextState(knowledge, concept, correct)
               IN IF r.err # "none"
                  THEN /\ dkt_ret' = [dkt_ret EXCEPT !.err = r.err]
                       /\ trace_pc' = "done"
                       /\ student_data' = <<>>
                       /\ knowledge' = initial_knowledge
                       /\ trajectory' = <<>>
                  ELSE /\ trajectory' = Append(trajectory,
                              [timestamp |-> row.timestamp,
                               concept |-> concept,
                               is_correct |-> correct,
                               knowledge_before |-> knowledge[concept],
                               all_knowledge_before |-> knowledge,
                               knowledge_after |-> r.val[concept]])
                       /\ knowledge' = r.val
                       /\ student_data' = Tail(student_data)
                       /\ UNCHANGED <<trace_pc, dkt_ret>>
    /\ UNCHANGED <<learning_rate, forget_rate, current_knowledge>>
    /\ UNCHANGED notDKT

\* trace_student, line 125: return (trajectory, knowledge).
TraceReturn ==
    /\ trace_pc = "loop"
    /\ student_data = <<>>
    /\ dkt_ret' = [dkt_ret EXCEPT !.err = "none",
                                  !.val = [trajectory |-> trajectory,
                                           final |-> knowledge]]
    /\ trace_pc' = "done"
    /\ knowledge' = initial_knowledge
    /\ trajectory' = <<>>
    /\ UNCHANGED <<learning_rate, forget_rate, student_data, current_knowledge>>
    /\ UNCHANGED notDKT

\* A caller calls predict_next_state on a dict it holds.
CallPredictNextState ==
    /\ trace_pc = "idle"
    /\ \E k \in KnowledgeInputs, c \in AllConcepts, is_correct \in {0, 1} :
         /\ dkt_ret' = [op |-> "predict_next_state", args |-> <<k, c, is_correct>>]
                       @@ PredictNextState(k, c, is_correct)
         /\ current_knowledge' = k
    /\ trace_pc' = "done"
    /\ UNCHANGED <<learning_rate, forget_rate, student_data, knowledge, trajectory>>
    /\ UNCHANGED notDKT

\* A caller calls predict_performance on a dict it holds.
CallPredictPerformance ==
    /\ trace_pc = "idle"
    /\ \E k \in KnowledgeInputs, c \in AllConcepts :
         /\ dkt_ret' = [op |-> "predict_performance", args |-> <<k, c>>]
                       @@ PredictPerformance(k, c)
         /\ current_knowledge' = k
    /\ trace_pc' = "done"
    /\ UNCHANGED <<learning_rate, forget_rate, student_data, knowledge, trajectory>>
    /\ UNCHANGED notDKT

\* A caller calls estimate_steps_to_mastery on a dict it holds.
CallEstimateSteps ==
    /\ trace_pc = "idle"
    /\ \E k \in KnowledgeInputs, c \in AllConcepts :
         /\ dkt_ret' = [op |-> "estimate_steps_to_mastery",
                        args |-> <<k, c, DefaultThreshold>>]
                       @@ EstimateStepsToMastery(k, c, DefaultThreshold)
         /\ current_knowledge' = k
    /\ trace_pc' = "done"
    /\ UNCHANGED <<learning_rate, forget_rate, student_data, knowledge, trajectory>>
    /\ UNCHANGED notDKT

\* The caller is done with the result and with the dict it passed.
DKTDiscard ==
    /\ trace_pc = "done"
    /\ trace_pc' = "idle"
    /\ current_knowledge' = initial_knowledge
    /\ dkt_ret' = NoCall
    /\ UNCHANGED <<learning_rate, forget_rate, student_data, knowledge, trajectory>>
    /\ UNCHANGED notDKT

\* ===================================================== LearnerProfileManager

\* Python's None.
None == "None"

\* LearnerProfile.__init__: no concept has metrics yet (concept_metrics is a
\* defaultdict without keys), the overall metrics are zero and the knowledge
\* state holds 0.0 for every configured concept.  A float that is a quotient
\* is kept as the pair <<numerator, denominator>>.
LearnerProfile(student_id) ==
    [student_id |-> student_id,
     concept_metrics |-> <<>>,
     overall_metrics |-> [total_questions |-> 0, total_correct |-> 0,
                          total_attempts |-> 0, total_time_spent |-> 0,
                          average_accuracy |-> <<0, 1>>,
                          learning_velocity |-> <<0, 1>>],
     knowledge_state |-> [c \in ConceptSet |-> <<0, 1>>]]

\* The factory of concept_metrics: the entry a first access creates.
DefaultMetrics ==
    [attempts |-> 0, correct |-> 0, incorrect |-> 0, total_time |-> 0,
     avg_difficulty_faced |-> <<0, 1>>, last_attempt_timestamp |-> None,
     streak |-> 0]

\* difficulty_map.get(difficulty, 2)
DifficultyScore(difficulty) ==
    CASE difficulty = "Easy" -> 1
      [] difficulty = "Medium" -> 2
      [] difficulty = "Hard" -> 3
      [] OTHER -> 2

\* The function f with key k set to v, k being in its domain or not.
Put(f, k, v) == [x \in DOMAIN f \cup {k} |-> IF x = k THEN v ELSE f[x]]

\* update_with_interaction that leaves the streak as it is on an incorrect
\* response.
UpdateWithInteraction_StreakKept(profile, concept, correct, time_spent, difficulty, timestamp) ==
    LET old == IF concept \in DOMAIN profile.concept_metrics
               THEN profile.concept_metrics[concept] ELSE DefaultMetrics
        attempts == old.attempts + 1
        metrics ==
            [attempts |-> attempts,
             correct |-> old.correct + correct,
             incorrect |-> old.incorrect + (1 - correct),
             total_time |-> old.total_time + time_spent,
             last_attempt_timestamp |-> timestamp,
             streak |-> IF correct # 0 THEN old.streak + 1 ELSE old.streak,
             avg_difficulty_faced |->
                 <<old.avg_difficulty_faced[1] + DifficultyScore(difficulty), attempts>>]
        om == profile.overall_metrics
    IN [profile EXCEPT
          !.concept_metrics = Put(profile.concept_metrics, concept, metrics),
          !.overall_metrics =
              [om EXCEPT !.total_questions = @ + 1,
                         !.total_correct = @ + correct,
                         !.total_attempts = @ + 1,
                         !.total_time_spent = @ + time_spent,
                         !.average_accuracy =
                             <<om.total_correct + correct, om.total_questions + 1>>]]

\* update_with_interaction that counts every response as an incorrect one
\* as well.
UpdateWithInteraction_IncorrectCounted(profile, concept, correct, time_spent, difficulty, timestamp) ==
    LET old == IF concept \in DOMAIN profile.concept_metrics
               THEN profile.concept_metrics[concept] ELSE DefaultMetrics
        attempts == old.attempts + 1
        metrics ==
            [attempts |-> attempts,
             correct |-> old.correct + correct,
             incorrect |-> old.incorrect + 1,
             total_time |-> old.total_time + time_spent,
             last_attempt_timestamp |-> timestamp,
             streak |-> IF correct # 0 THEN old.streak + 1 ELSE 0,
             avg_difficulty_faced |->
                 <<old.avg_difficulty_faced[1] + DifficultyScore(difficulty), attempts>>]
        om == profile.overall_metrics
    IN [profile EXCEPT
          !.concept_metrics = Put(profile.concept_metrics, concept, metrics),
          !.overall_metrics =
              [om EXCEPT !.total_questions = @ + 1,
                         !.total_correct = @ + correct,
                         !.total_attempts = @ + 1,
                         !.total_time_spent = @ + time_spent,
                         !.average_accuracy =
                             <<om.total_correct + correct, om.total_questions + 1>>]]

\* update_with_interaction: the profile after the call.  The concept's entry
\* is created on first access, whatever the concept id.  The running mean
\* avg_difficulty_faced is the sum of the scores faced over the attempts.
UpdateWithInteraction(profile, concept, correct, time_spent, difficulty, timestamp) ==
    LET old == IF concept \in DOMAIN profile.concept_metrics
               THEN profile.concept_metrics[concept] ELSE DefaultMetrics
        attempts == old.attempts + 1
        metrics ==
            [attempts |-> attempts,
             correct |-> old.correct + correct,
             incorrect |-> old.incorrect + (1 - correct),
             total_time |-> old.total_time + time_spent,
             last_attempt_timestamp |-> timestamp,
             streak |-> IF correct # 0 THEN old.streak + 1 ELSE 0,
             avg_difficulty_faced |->
                 <<old.avg_difficulty_faced[1] + DifficultyScore(difficulty), attempts>>]
        om == profile.overall_metrics
    IN [profile EXCEPT
          !.concept_metrics = Put(profile.concept_metrics, concept, metrics),
          !.overall_metrics =
              [om EXCEPT !.total_questions = @ + 1,
                         !.total_correct = @ + correct,
                         !.total_attempts = @ + 1,
                         !.total_time_spent = @ + time_spent,
                         !.average_accuracy =
                             <<om.total_correct + correct, om.total_questions + 1>>]]

\* np.clip(x, 0.0, 1.0) of the fraction x.
Clip01(x) ==
    IF x[1] < 0 THEN <<0, x[2]>> ELSE IF x[1] > x[2] THEN <<x[2], x[2]>> ELSE x

\* calculate_mastery_probability without the final np.clip.
CalculateMasteryProbability_NoClip(profile, concept) ==
    IF concept \notin DOMAIN profile.concept_metrics
       \/ profile.concept_metrics[concept].attempts = 0
    THEN <<0, 1>>
    ELSE LET metrics == profile.concept_metrics[concept]
             streak_bonus == Min(10, metrics.streak * 5)
             effort_weight == Min(10, metrics.attempts)
         IN <<100 * metrics.correct
                + metrics.attempts * (streak_bonus + effort_weight),
              100 * metrics.attempts>>

\* calculate_mastery_probability: accuracy + streak bonus + effort weight,
\* clipped to [0,1], as a fraction over 100 * attempts:
\*   streak_bonus  = min(0.1, streak * 0.05)        = Min(10, 5 * streak) / 100
\*   effort_weight = min(1.0, attempts / 10.0) * 0.1 = Min(10, attempts) / 100
CalculateMasteryProbability(profile, concept) ==
    IF concept \notin DOMAIN profile.concept_metrics
       \/ profile.concept_metrics[concept].attempts = 0
    THEN <<0, 1>>
    ELSE LET metrics == profile.concept_metrics[concept]
             streak_bonus == Min(10, metrics.streak * 5)
             effort_weight == Min(10, metrics.attempts)
         IN Clip01(<<100 * metrics.correct
                       + metrics.attempts * (streak_bonus + effort_weight),
                     100 * metrics.attempts>>)

\* ---- inputs of the profile calls

\* time_spent, in seconds.
TimesSpent == {0, 45}

\* difficulty: the tier of the row.
DifficultyInputs == {"Hard"}

\* ---- the profile manager's actions

ProfInit ==
    /\ profiles = <<>>
    /\ interactions_done = 0
    /\ prof_ret = NoCall

\* get_or_create_profile: the profiles after the call.
GetOrCreateProfile(student_id) ==
    IF student_id \notin DOMAIN profiles
    THEN Put(profiles, student_id, LearnerProfile(student_id))
    ELSE profiles

\* One iteration of the loop of update_from_interactions: the row's profile
\* is fetched or created and updated with the row.
UpdateFromInteractionsRow ==
    /\ interactions_done < MaxInteractions
    /\ \E student_id \in StudentIds, concept \in {"A", "B", UnknownConcept},
          score \in {0, 1}, time_spent \in TimesSpent,
          difficulty \in DifficultyInputs :
         LET created == GetOrCreateProfile(student_id)
         IN /\ profiles' = [created EXCEPT ![student_id] =
                   UpdateWithInteraction(@, concept, score, time_spent, difficulty, None)]
            /\ prof_ret' = [op |-> "update_with_interaction",
                            args |-> <<student_id, concept, score, time_spent, difficulty>>,
                            err |-> "none", val |-> None]
    /\ interactions_done' = interactions_done + 1
    /\ UNCHANGED notProfile

\* get_knowledge_state_vector: every configured concept's mastery is
\* recomputed and stored in knowledge_state, which is returned.
GetKnowledgeStateVector ==
    /\ \E student_id \in DOMAIN profiles :
         LET ks == [c \in ConceptSet |->
                       CalculateMasteryProbability(profiles[student_id], c)]
         IN /\ profiles' = [profiles EXCEPT ![student_id].knowledge_state = ks]
            /\ prof_ret' = [op |-> "get_knowledge_state_vector",
                            args |-> <<student_id>>, err |-> "none", val |-> ks]
    /\ UNCHANGED interactions_done
    /\ UNCHANGED notProfile

NextProfile ==
    \/ UpdateFromInteractionsRow
    \/ GetKnowledgeStateVector

\* ========================================================= DifficultyAdaptor

\* self.difficulty_levels
difficulty_levels == <<"Easy", "Medium", "Hard">>

\* difficulty_levels[idx], idx counted from 0 as in the code.
LevelAt(idx) == difficulty_levels[idx + 1]

\* difficulty_levels.index(level)
LevelIndex(level) == IndexOf(difficulty_levels, level) - 1

\* sum(recent)
RECURSIVE SumSeq(_)
SumSeq(s) == IF s = <<>> THEN 0 ELSE Head(s) + SumSeq(Tail(s))

\* s[-n:]
LastN(s, n) == SubSeq(s, Max(1, Len(s) - n + 1), Len(s))

\* The flag get_next_difficulty appends: 1 if recent_accuracy > 0.65.
PassFlag(recent_accuracy) == IF recent_accuracy > 65 THEN 1 ELSE 0

\* The tier step taken on two passes of three only when all three pass.
NextDifficultyIdx_AllThree(idx, history) ==
    IF Len(history) >= 3
    THEN LET recent == LastN(history, 3)
         IN IF SumSeq(recent) >= 3 THEN Min(2, idx + 1)
            ELSE IF SumSeq(recent) = 0 THEN Max(0, idx - 1)
            ELSE idx
    ELSE idx

\* The tier step taken on the flags recorded so far, however few they are.
NextDifficultyIdx_NoWarmUp(idx, history) ==
    LET recent == LastN(history, 3)
    IN IF SumSeq(recent) >= 2 THEN Min(2, idx + 1)
       ELSE IF SumSeq(recent) = 0 THEN Max(0, idx - 1)
       ELSE idx

\* get_next_difficulty, lines 348-357: the new difficulty_idx, from the old
\* one and the history that already holds the call's flag.
NextDifficultyIdx(idx, history) ==
    IF Len(history) >= 3
    THEN LET recent == LastN(history, 3)
         IN IF SumSeq(recent) >= 2 THEN Min(2, idx + 1)
            ELSE IF SumSeq(recent) = 0 THEN Max(0, idx - 1)
            ELSE idx
    ELSE idx

\* recent_accuracy, in hundredths: below, at and above the 0.65 threshold.
AccuracyInputs == {0, 65, 66, 100}

\* DifficultyAdaptor.__init__ with the default initial difficulty.
AdaptorConstructed ==
    /\ difficulty_idx = LevelIndex("Medium")
    /\ current_difficulty = "Medium"
    /\ response_history = <<>>
    /\ da_ret = NoCall

\* DifficultyAdaptor.__init__ with any of the three tiers.
AdaptorInit ==
    /\ \E initial_difficulty \in {"Easy", "Medium", "Hard"} :
         /\ current_difficulty = initial_difficulty
         /\ difficulty_idx = LevelIndex(initial_difficulty)
    /\ response_history = <<>>
    /\ da_ret = NoCall

GetNextDifficulty ==
    /\ Len(response_history) < MaxHistory
    /\ \E recent_accuracy \in AccuracyInputs :
         LET history == Append(response_history, PassFlag(recent_accuracy))
             idx == NextDifficultyIdx(difficulty_idx, history)
         IN /\ response_history' = history
            /\ difficulty_idx' = idx
            /\ current_difficulty' = LevelAt(idx)
            /\ da_ret' = [op |-> "get_next_difficulty", args |-> <<recent_accuracy>>,
                          before |-> difficulty_idx, err |-> "none",
                          val |-> LevelAt(idx)]
    /\ UNCHANGED notAdaptor

AdaptorReset ==
    /\ \E initial_difficulty \in {"Easy", "Medium", "Hard"} :
         /\ difficulty_idx' = LevelIndex(initial_difficulty)
         /\ current_difficulty' = initial_difficulty
         /\ da_ret' = [op |-> "reset", args |-> <<initial_difficulty>>,
                       before |-> difficulty_idx, err |-> "none", val |-> None]
    /\ response_history' = <<>>
    /\ UNCHANGED notAdaptor

NextAdaptor ==
    \/ GetNextDifficulty
    \/ AdaptorReset

\* ======================================================== AdaptiveQuizEngine

\* Lexicographic order of two tuples of integers of the same length, as
\* Python orders tuples.
RECURSIVE LexLess(_, _)
LexLess(a, b) ==
    IF a = <<>> THEN FALSE
    ELSE IF Head(a) # Head(b) THEN Head(a) < Head(b)
    ELSE LexLess(Tail(a), Tail(b))

\* x put into the sorted sequence of <<key, item>> pairs after every pair
\* whose key is not greater.
RECURSIVE InsertByKey(_, _)
InsertByKey(sorted, x) ==
    IF sorted = <<>> THEN <<x>>
    ELSE IF LexLess(x[1], Head(sorted)[1]) THEN <<x>> \o sorted
    ELSE <<Head(sorted)>> \o InsertByKey(Tail(sorted), x)

\* list.sort / sorted by key: ascending and stable.  pairs[i] = <<key, item>>.
RECURSIVE StableSort(_)
StableSort(pairs) ==
    IF pairs = <<>> THEN <<>>
    ELSE InsertByKey(StableSort(SubSeq(pairs, 1, Len(pairs) - 1)),
                     pairs[Len(pairs)])

\* The items of a sequence sorted by keys[i], the key of items[i].
SortedBy(items, keys) ==
    LET sorted == StableSort([i \in 1..Len(items) |-> <<keys[i], items[i]>>])
    IN [i \in 1..Len(items) |-> sorted[i][2]]

\* Question.__init__: the statistics start at zero.
Question(question_id, concept, difficulty) ==
    [question_id |-> question_id, concept |-> concept, difficulty |-> difficulty,
     attempts |-> 0, correct |-> 0, total_time |-> 0]

\* Question.get_difficulty_score: difficulty_map.get(self.difficulty, 2)
GetDifficultyScore(q) == DifficultyScore(q.difficulty)

\* The question banks the engine is constructed on.  Concept A has questions
\* of every tier, two of them Hard; B has two questions that score 2, one of
\* a tier the map does not know; C has none.
QuestionBanks ==
    {<<Question(1, "A", "Easy"), Question(2, "A", "Hard"),
       Question(3, "A", "Hard"), Question(4, "B", "Medium"),
       Question(5, "B", "Expert")>>,
     <<Question(1, "A", "Hard"), Question(2, "B", "Expert"),
       Question(3, "A", "Medium"), Question(4, "A", "Easy"),
       Question(5, "B", "Medium")>>}

QuestionIds == {questions[i].question_id : i \in 1..Len(questions)}

\* A question id that is not in the bank.
UnknownQuestionIds == {99}

\* QuestionBank.get_question_by_id: the position in the bank, 0 for None.
GetQuestionById(question_id) ==
    IF \E i \in 1..Len(questions) : questions[i].question_id = question_id
    THEN CHOOSE i \in 1..Len(questions) : questions[i].question_id = question_id
    ELSE 0

\* QuestionBank.get_questions_by_concept, without a difficulty filter.
GetQuestionsByConcept(concept) ==
    SelectSeq(questions, LAMBDA q : q.concept = concept)

\* select_next_question without the filter of the presented questions.
SelectedQuestion_NoFilter(concept, student_mastery, previous_correct) ==
    LET candidate_questions == GetQuestionsByConcept(concept)
        available == candidate_questions
        Abs(x) == IF x < 0 THEN -x ELSE x
        keys == [i \in 1..Len(available) |->
                   IF previous_correct = None
                   THEN <<Abs(100 * GetDifficultyScore(available[i]) - 3 * student_mastery)>>
                   ELSE IF previous_correct = "True"
                   THEN <<-GetDifficultyScore(available[i])>>
                   ELSE <<GetDifficultyScore(available[i])>>]
    IN IF candidate_questions = <<>> THEN <<>>
       ELSE <<SortedBy(available, keys)[1]>>

\* select_next_question that sorts by ascending difficulty score whatever
\* the previous answer was.
SelectedQuestion_AlwaysAscending(concept, student_mastery, previous_correct) ==
    LET candidate_questions == GetQuestionsByConcept(concept)
        unused == SelectSeq(candidate_questions,
                     LAMBDA q : \A i \in 1..Len(questions_presented) :
                                   questions_presented[i] # q.question_id)
        available == IF unused = <<>> THEN candidate_questions ELSE unused
        Abs(x) == IF x < 0 THEN -x ELSE x
        keys == [i \in 1..Len(available) |->
                   IF previous_correct = None
                   THEN <<Abs(100 * GetDifficultyScore(available[i]) - 3 * student_mastery)>>
                   ELSE <<GetDifficultyScore(available[i])>>]
    IN IF candidate_questions = <<>> THEN <<>>
       ELSE <<SortedBy(available, keys)[1]>>

\* select_next_question that falls back to the whole bank when the concept
\* has no question.
SelectedQuestion_AnyConcept(concept, student_mastery, previous_correct) ==
    LET of_concept == GetQuestionsByConcept(concept)
        candidate_questions == IF of_concept = <<>> THEN questions ELSE of_concept
        unused == SelectSeq(candidate_questions,
                     LAMBDA q : \A i \in 1..Len(questions_presented) :
                                   questions_presented[i] # q.question_id)
        available == IF unused = <<>> THEN candidate_questions ELSE unused
        Abs(x) == IF x < 0 THEN -x ELSE x
        keys == [i \in 1..Len(available) |->
                   IF previous_correct = None
                   THEN <<Abs(100 * GetDifficultyScore(available[i]) - 3 * student_mastery)>>
                   ELSE IF previous_correct = "True"
                   THEN <<-GetDifficultyScore(available[i])>>
                   ELSE <<GetDifficultyScore(available[i])>>]
    IN IF candidate_questions = <<>> THEN <<>>
       ELSE <<SortedBy(available, keys)[1]>>

\* select_next_question, lines 188-215: <<the selected question>>, or <<>>
\* for None.
\* previous_correct is None, "True" or "False"; student_mastery is in hundredths,
\* so the key abs(score - mastery * 3) is |100 * score - 3 * mastery| / 100.
SelectedQuestion(concept, student_mastery, previous_correct) ==
    LET candidate_questions == GetQuestionsByConcept(concept)
        unused == SelectSeq(candidate_questions,
                     LAMBDA q : \A i \in 1..Len(questions_presented) :
                                   questions_presented[i] # q.question_id)
        available == IF unused = <<>> THEN candidate_questions ELSE unused
        Abs(x) == IF x < 0 THEN -x ELSE x
        keys == [i \in 1..Len(available) |->
                   IF previous_correct = None
                   THEN <<Abs(100 * GetDifficultyScore(available[i]) - 3 * student_mastery)>>
                   ELSE IF previous_correct = "True"
                   THEN <<-GetDifficultyScore(available[i])>>   \* reverse=True
                   ELSE <<GetDifficultyScore(available[i])>>]
    IN IF candidate_questions = <<>> THEN <<>>
       ELSE <<SortedBy(available, keys)[1]>>

\* select_next_question that filters the presented questions for student 1
\* only.
SelectNextQuestion_OwnStudentOnly(student_id, concept, student_mastery, previous_correct) ==
    LET selected == IF student_id = 1
                    THEN SelectedQuestion(concept, student_mastery, previous_correct)
                    ELSE SelectedQuestion_NoFilter(concept, student_mastery, previous_correct)
    IN /\ quiz_ret' = [op |-> "select_next_question",
                       args |-> <<student_id, concept, student_mastery, previous_correct>>,
                       err |-> "none",
                       val |-> IF selected = <<>> THEN <<>>
                               ELSE <<selected[1].question_id>>]
       /\ questions_presented' =
             IF selected = <<>> THEN questions_presented
             ELSE Append(questions_presented, selected[1].question_id)
       /\ UNCHANGED <<questions, responses>>
       /\ UNCHANGED notQuiz

\* select_next_question; the result is <<>> for None and <<id>> for the
\* question with that id.
SelectNextQuestion(student_id, concept, student_mastery, previous_correct) ==
    LET selected == SelectedQuestion(concept, student_mastery, previous_correct)
    IN /\ quiz_ret' = [op |-> "select_next_question",
                       args |-> <<student_id, concept, student_mastery, previous_correct>>,
                       err |-> "none",
                       val |-> IF selected = <<>> THEN <<>>
                               ELSE <<selected[1].question_id>>]
       /\ questions_presented' =
             IF selected = <<>> THEN questions_presented
             ELSE Append(questions_presented, selected[1].question_id)
       /\ UNCHANGED <<questions, responses>>
       /\ UNCHANGED notQuiz

\* record_response without the lookup of the question: the response is
\* appended whether or not the bank has the question.
RecordResponse_NoLookup(question_id, student_id, is_correct, time_spent) ==
    LET at == GetQuestionById(question_id)
        response == [question_id |-> question_id, student_id |-> student_id,
                     is_correct |-> is_correct, time_spent |-> time_spent,
                     concept |-> IF at = 0 THEN None ELSE questions[at].concept,
                     difficulty |-> IF at = 0 THEN None ELSE questions[at].difficulty]
    IN /\ questions' = IF at = 0 THEN questions
                       ELSE [questions EXCEPT
                               ![at].attempts = @ + 1,
                               ![at].correct = @ + is_correct,
                               ![at].total_time = @ + time_spent]
       /\ responses' = Append(responses, response)
       /\ quiz_ret' = [op |-> "record_response",
                       args |-> <<question_id, student_id, is_correct, time_spent>>,
                       err |-> "none",
                       val |-> <<[response |-> response,
                                  next_action |->
                                     IF Len(responses) + 1 < 10
                                     THEN "continue" ELSE "complete"]>>]
       /\ UNCHANGED questions_presented
       /\ UNCHANGED notQuiz

\* record_response, with QuestionBank.update_question_statistics and
\* Question.update_statistics.  The feedback text of the result is left out;
\* the result is <<>> for None and <<the result dict>> otherwise.
RecordResponse(question_id, student_id, is_correct, time_spent) ==
    LET at == GetQuestionById(question_id)
    IN IF at = 0
       THEN /\ quiz_ret' = [op |-> "record_response",
                            args |-> <<question_id, student_id, is_correct, time_spent>>,
                            err |-> "none", val |-> <<>>]
            /\ UNCHANGED <<questions, questions_presented, responses>>
            /\ UNCHANGED notQuiz
       ELSE LET response == [question_id |-> question_id, student_id |-> student_id,
                             is_correct |-> is_correct, time_spent |-> time_spent,
                             concept |-> questions[at].concept,
                             difficulty |-> questions[at].difficulty]
            IN /\ questions' = [questions EXCEPT
                                  ![at].attempts = @ + 1,
                                  ![at].correct = @ + is_correct,
                                  ![at].total_time = @ + time_spent]
               /\ responses' = Append(responses, response)
               /\ quiz_ret' = [op |-> "record_response",
                               args |-> <<question_id, student_id, is_correct, time_spent>>,
                               err |-> "none",
                               val |-> <<[response |-> response,
                                          next_action |->
                                             IF Len(responses) + 1 < 10
                                             THEN "continue" ELSE "complete"]>>]
               /\ UNCHANGED questions_presented
               /\ UNCHANGED notQuiz

\* should_continue_quiz on the responses resp.  recent_accuracy is the
\* fraction correct / Len(recent); 0.3 < it < 0.8 is compared in tenths.
ShouldContinueQuiz(resp) ==
    IF Len(resp) < 3 THEN TRUE
    ELSE LET recent == LastN(resp, 5)
             correct == SumSeq([i \in 1..Len(recent) |-> recent[i].is_correct])
         IN IF 3 * Len(recent) < 10 * correct /\ 10 * correct < 8 * Len(recent)
            THEN TRUE
            ELSE IF Len(resp) >= 10 THEN FALSE
            ELSE TRUE

\* should_continue_quiz
CallShouldContinueQuiz ==
    /\ quiz_ret' = [op |-> "should_continue_quiz", args |-> <<>>, err |-> "none",
                    val |-> ShouldContinueQuiz(responses)]
    /\ UNCHANGED <<questions, questions_presented, responses>>
    /\ UNCHANGED notQuiz

\* start_new_quiz that also starts the statistics of the bank afresh.
StartNewQuiz_StatisticsReset ==
    /\ questions_presented' = <<>>
    /\ responses' = <<>>
    /\ quiz_ret' = [op |-> "start_new_quiz", args |-> <<>>, err |-> "none",
                    val |-> None]
    /\ questions' = [i \in 1..Len(questions) |->
                       [questions[i] EXCEPT !.attempts = 0, !.correct = 0,
                                            !.total_time = 0]]
    /\ UNCHANGED notQuiz

\* start_new_quiz (current_quiz, always the empty dict, is left out)
StartNewQuiz ==
    /\ questions_presented' = <<>>
    /\ responses' = <<>>
    /\ quiz_ret' = [op |-> "start_new_quiz", args |-> <<>>, err |-> "none",
                    val |-> None]
    /\ UNCHANGED questions
    /\ UNCHANGED notQuiz

\* ---- inputs of the engine calls

\* student_mastery, in hundredths.
QuizMasteryInputs == {0, 50, 100}

PreviousCorrectInputs == {None, "True", "False"}

\* The responses recorded since the engine was constructed.
TotalAttempts == SumSeq([i \in 1..Len(questions) |-> questions[i].attempts])

\* ---- the engine's actions

\* QuestionBank.__init__ and AdaptiveQuizEngine.__init__
QuizInit ==
    /\ questions \in QuestionBanks
    /\ questions_presented = <<>>
    /\ responses = <<>>
    /\ quiz_ret = NoCall

QuizConstructed ==
    /\ questions = <<>>
    /\ questions_presented = <<>>
    /\ responses = <<>>
    /\ quiz_ret = NoCall

\* Any caller, any arguments.
DoSelectNextQuestion ==
    /\ Len(questions_presented) < MaxPresented
    /\ \E student_id \in StudentIds, concept \in ConceptSet,
          student_mastery \in QuizMasteryInputs,
          previous_correct \in PreviousCorrectInputs :
         SelectNextQuestion(student_id, concept, student_mastery, previous_correct)

DoRecordResponse ==
    /\ TotalAttempts < MaxRecorded
    /\ \E question_id \in QuestionIds \cup UnknownQuestionIds,
          student_id \in StudentIds, is_correct \in {0, 1} :
         RecordResponse(question_id, student_id, is_correct, 45)

\* Question selection: the engine's session state is the presented list.
NextQuiz ==
    \/ DoSelectNextQuestion
    \/ StartNewQuiz

\* Response recording: the session's responses and the bank's statistics.
NextQuizRecord ==
    \/ DoRecordResponse
    \/ CallShouldContinueQuiz
    \/ StartNewQuiz

\* One quiz session as run_adaptive_quiz drives it: student 1, the concepts
\* with questions in turn, previous_correct taken from the last response,
\* every selected question answered before the next is selected.
SessionSelect ==
    /\ Len(responses) < MaxSession
    /\ Len(questions_presented) = Len(responses)
    /\ LET i == Len(responses)
           concept == IF i % 2 = 0 THEN "A" ELSE "B"
           previous_correct == IF responses = <<>> THEN None
                               ELSE IF responses[Len(responses)].is_correct = 1
                               THEN "True" ELSE "False"
       IN SelectNextQuestion(1, concept, 50, previous_correct)

SessionRecord ==
    /\ Len(questions_presented) = Len(responses) + 1
    /\ \E is_correct \in {0, 1} :
         RecordResponse(questions_presented[Len(questions_presented)], 1,
                        is_correct, 45)

NextQuizSession ==
    \/ SessionSelect
    \/ SessionRecord
    \/ CallShouldContinueQuiz

\* Two students served in turn by one engine in one session: student 1 asks
\* for the odd questions, student 2 for the even ones.
SharedSelect ==
    /\ Len(questions_presented) < MaxPresented
    /\ \E concept \in ConceptSet, student_mastery \in QuizMasteryInputs,
          previous_correct \in PreviousCorrectInputs :
         SelectNextQuestion(1 + (Len(questions_presented) % 2), concept,
                            student_mastery, previous_correct)

NextQuizShared ==
    \/ SharedSelect
    \/ StartNewQuiz

\* Sessions one after the other on one engine: a question is selected for
\* any concept and answered before the next is selected, and start_new_quiz
\* may be called at any point.
LifetimeSelect ==
    /\ TotalAttempts < MaxRecorded
    /\ Len(questions_presented) = Len(responses)
    /\ \E concept \in ConceptSet, previous_correct \in PreviousCorrectInputs :
         SelectNextQuestion(1, concept, 50, previous_correct)

NextQuizLifetime ==
    \/ LifetimeSelect
    \/ SessionRecord
    \/ StartNewQuiz

\* ====================================== LearningPathGenerator, path manager

\* dict.get(k, default)
Get(d, k, default) == IF k \in DOMAIN d THEN d[k] ELSE default

\* The dict without entries.
EmptyDict == [c \in {} |-> 0]

\* The generators the path component is constructed on: a pair of the
\* concept_difficulty and the prerequisites constructor arguments (in
\* hundredths; estimated_times is left at its default).  The first is the
\* configuration of the module's own example, the second a chain with a
\* dependent concept easier than its prerequisite, the third the constructor
\* defaults, the fourth has a concept with two prerequisites, one of them
\* above the default max_difficulty.
NoPrerequisites == [c \in ConceptSet |-> <<>>]

ExampleGenerator ==
    <<[c \in ConceptSet |-> CASE c = "A" -> 30 [] c = "B" -> 50 [] OTHER -> 40],
      [c \in ConceptSet |-> IF c = "A" THEN <<>> ELSE <<"A">>]>>

GeneratorConfigs ==
    { ExampleGenerator,
      <<[c \in ConceptSet |-> CASE c = "A" -> 30 [] c = "B" -> 70 [] OTHER -> 50],
        [c \in ConceptSet |-> CASE c = "A" -> <<>> [] c = "B" -> <<"A">>
                                   [] OTHER -> <<"B">>]>>,
      <<[c \in ConceptSet |-> 50], NoPrerequisites>>,
      <<[c \in ConceptSet |-> IF c = "A" THEN 90 ELSE 50],
        [c \in ConceptSet |-> IF c = "C" THEN <<"A", "B">> ELSE <<>>]>> }

\* self.estimated_times.get(concept, 30) on the default estimated_times
EstimatedTime(concept) == 30

InList(x, list) == \E i \in 1..Len(list) : list[i] = x

\* _check_prerequisites_met with every prerequisite taken as met once one is.
CheckPrerequisitesMet_AnyMet(concept, student_knowledge) ==
    LET prereqs == Get(prerequisites, concept, <<>>)
    IN prereqs = <<>> \/
       \E i \in 1..Len(prereqs) : Get(student_knowledge, prereqs[i], 0) >= 60

\* _check_prerequisites_met with the default mastery_threshold 0.6
CheckPrerequisitesMet(concept, student_knowledge) ==
    LET prereqs == Get(prerequisites, concept, <<>>)
    IN \A i \in 1..Len(prereqs) : ~(Get(student_knowledge, prereqs[i], 0) < 60)

\* _calculate_concept_priority: the exact value of the expression the code
\* evaluates in floats, as the integer priority * 10000.
\* weak_concepts is a list; None and [] are both false in the code's test and
\* are both the empty list here.
CalculateConceptPriority(concept, student_knowledge, weak_concepts, preference) ==
    LET current_mastery == Get(student_knowledge, concept, 0)
        difficulty == concept_difficulty[concept]
        mastery_gap == 100 - current_mastery
        weak == weak_concepts # <<>> /\ InList(concept, weak_concepts)
    IN CASE preference = "balanced" ->
              (5 * mastery_gap + 3 * difficulty) * (IF weak THEN 13 ELSE 10)
         [] preference = "progressive" ->
              (4 * mastery_gap + 6 * difficulty) * 10
         [] preference = "review" ->
              mastery_gap * (IF weak THEN 200 ELSE 100)
         [] OTHER -> mastery_gap * 100

\* _estimate_bloom_level
EstimateBloomLevel(concept, student_knowledge) ==
    LET mastery == Get(student_knowledge, concept, 0)
    IN IF mastery < 20 THEN "Remember"
       ELSE IF mastery < 40 THEN "Understand"
       ELSE IF mastery < 60 THEN "Apply"
       ELSE IF mastery < 75 THEN "Analyze"
       ELSE IF mastery < 90 THEN "Evaluate"
       ELSE "Create"

\* _suggest_resources
SuggestResources(concept) ==
    LET resources == <<"Video Lecture", "Reading Material", "Practice Problems">>
    IN IF concept_difficulty[concept] > 70
       THEN resources \o <<"Expert Explanation", "Step-by-step Tutorial">>
       ELSE resources

\* _topological_sort_concepts with the sort key (difficulty, -mastery_gap),
\* the prerequisite count left out.
TopologicalSortConcepts_NoPrereqCount(selected, student_knowledge) ==
    LET sort_key == [i \in 1..Len(selected) |->
                       <<concept_difficulty[selected[i]],
                         -(100 - Get(student_knowledge, selected[i], 0))>>]
        sorted_concepts == SortedBy(selected, sort_key)
    IN [idx \in 1..Len(sorted_concepts) |->
          LET concept == sorted_concepts[idx]
          IN [position |-> idx,
              concept |-> concept,
              difficulty |-> concept_difficulty[concept],
              current_mastery |-> Get(student_knowledge, concept, 0),
              estimated_time |-> EstimatedTime(concept),
              prerequisites |-> Get(prerequisites, concept, <<>>),
              bloom_level |-> EstimateBloomLevel(concept, student_knowledge),
              resources |-> SuggestResources(concept),
              status |-> NoValue]]

\* _topological_sort_concepts: sorted() by the key (prereq_count, difficulty,
\* -mastery_gap), then one node per concept.  A node has no 'status' key
\* until adapt_path sets it: status is NoValue then.
TopologicalSortConcepts(selected, student_knowledge) ==
    LET prereq_count(c) ==
            LET ps == Get(prerequisites, c, <<>>)
            IN Cardinality({i \in 1..Len(ps) : InList(ps[i], selected)})
        sort_key == [i \in 1..Len(selected) |->
                       <<prereq_count(selected[i]),
                         concept_difficulty[selected[i]],
                         -(100 - Get(student_knowledge, selected[i], 0))>>]
        sorted_concepts == SortedBy(selected, sort_key)
    IN [idx \in 1..Len(sorted_concepts) |->
          LET concept == sorted_concepts[idx]
          IN [position |-> idx,
              concept |-> concept,
              difficulty |-> concept_difficulty[concept],
              current_mastery |-> Get(student_knowledge, concept, 0),
              estimated_time |-> EstimatedTime(concept),
              prerequisites |-> Get(prerequisites, concept, <<>>),
              bloom_level |-> EstimateBloomLevel(concept, student_knowledge),
              resources |-> SuggestResources(concept),
              status |-> NoValue]]

\* The scoring loop of generate_path: the concepts of the configured list, in
\* list order, that pass the three filters.
RECURSIVE CandidateConcepts(_, _, _)
CandidateConcepts(list, student_knowledge, max_difficulty) ==
    IF list = <<>> THEN <<>>
    ELSE LET concept == Head(list)
             rest == CandidateConcepts(Tail(list), student_knowledge, max_difficulty)
         IN IF Get(student_knowledge, concept, 0) >= 85 THEN rest
            ELSE IF concept_difficulty[concept] > max_difficulty THEN rest
            ELSE IF ~CheckPrerequisitesMet(concept, student_knowledge) THEN rest
            ELSE <<concept>> \o rest

\* Two candidates whose priorities the code computes from the same numbers
\* by the same operations: these priorities are the same float.
SamePriorityInputs(c1, c2, student_knowledge, weak_concepts, preference) ==
    LET weak(c) == weak_concepts # <<>> /\ InList(c, weak_concepts)
    IN /\ Get(student_knowledge, c1, 0) = Get(student_knowledge, c2, 0)
       /\ preference \in {"balanced", "progressive"} =>
             concept_difficulty[c1] = concept_difficulty[c2]
       /\ preference \in {"balanced", "review"} => (weak(c1) <=> weak(c2))

\* candidate_concepts.sort(key=priority, reverse=True): the orders the sort
\* may give.  The key is a float: it is within rounding of the exact
\* priority, so two candidates with different exact priorities are ordered
\* by them; two with the same priority inputs have equal keys and keep their
\* list order (the sort is stable under reverse=True); two with equal exact
\* priorities computed from different inputs have keys that round
\* independently and may compare either way.
PriorityOrders(candidate_concepts, student_knowledge, weak_concepts, preference) ==
    LET n == Len(candidate_concepts)
        priority(i) == CalculateConceptPriority(candidate_concepts[i], student_knowledge,
                                                weak_concepts, preference)
        perms == {p \in [1..n -> 1..n] : \A i, j \in 1..n : i # j => p[i] # p[j]}
        sorted == {p \in perms : \A i, j \in 1..n : i < j =>
                      /\ priority(p[i]) >= priority(p[j])
                      /\ SamePriorityInputs(candidate_concepts[p[i]], candidate_concepts[p[j]],
                                            student_knowledge, weak_concepts, preference)
                           => p[i] < p[j]}
    IN {[i \in 1..n |-> candidate_concepts[p[i]]] : p \in sorted}

\* The selection with a slice that is one entry too long.
SelectedConcepts_OneMore(student_knowledge, weak_concepts, num_concepts, max_difficulty, learning_preference) ==
    LET candidate_concepts ==
            CandidateConcepts(concepts, student_knowledge, max_difficulty)
        orders == PriorityOrders(candidate_concepts, student_knowledge, weak_concepts,
                                 learning_preference)
    IN {SubSeq(by_priority, 1, Min(num_concepts + 1, Len(by_priority))) : by_priority \in orders}

\* generate_path, lines 101-112, for num_concepts >= 0: the values the local
\* `selected` may take.  The candidates are sorted by descending priority and
\* the first num_concepts of them are selected.
SelectedConcepts(student_knowledge, weak_concepts, num_concepts, max_difficulty, learning_preference) ==
    LET candidate_concepts ==
            CandidateConcepts(concepts, student_knowledge, max_difficulty)
        orders == PriorityOrders(candidate_concepts, student_knowledge, weak_concepts,
                                 learning_preference)
    IN {SubSeq(by_priority, 1, Min(num_concepts, Len(by_priority))) : by_priority \in orders}

\* generate_path: the lists the call may return, the selected concepts
\* ordered into nodes.
GeneratePath(student_knowledge, weak_concepts, num_concepts, max_difficulty, learning_preference) ==
    {TopologicalSortConcepts(selected, student_knowledge) :
        selected \in SelectedConcepts(student_knowledge, weak_concepts, num_concepts,
                                      max_difficulty, learning_preference)}

\* adapt_path's loop body marking a node completed only above 0.85.
AdaptNode_StrictThreshold(node, latest_performance) ==
    LET concept == node.concept
        new_mastery == Get(latest_performance, concept, node.current_mastery)
    IN [node EXCEPT
          !.current_mastery = new_mastery,
          !.bloom_level = EstimateBloomLevel(concept, [c \in {concept} |-> new_mastery]),
          !.status = IF new_mastery > 85 THEN "completed" ELSE "in-progress"]

\* The body of adapt_path's loop on one node: the node after the assignments.
AdaptNode(node, latest_performance) ==
    LET concept == node.concept
        new_mastery == Get(latest_performance, concept, node.current_mastery)
    IN [node EXCEPT
          !.current_mastery = new_mastery,
          !.bloom_level = EstimateBloomLevel(concept, [c \in {concept} |-> new_mastery]),
          !.status = IF new_mastery >= 85 THEN "completed" ELSE "in-progress"]

\* adapt_path assigning to every node object alive, not only to those of the
\* path it is given.
AdaptPath_EveryObject(objects, current_path, latest_performance) ==
    [id \in 1..Len(objects) |-> AdaptNode(objects[id], latest_performance)]

\* adapt_path on a list of references into the node objects: the objects
\* after the loop.  The returned list holds the same references.
AdaptPath(objects, current_path, latest_performance) ==
    [id \in 1..Len(objects) |->
        IF InList(id, current_path)
        THEN AdaptNode(objects[id], latest_performance)
        ELSE objects[id]]

\* ---- inputs of the path calls

PathKnowledgeInputs ==
    UNION {[D -> {10, 59, 60, 80, 85}] : D \in SUBSET ConceptSet}

WeakConceptInputs == {<<>>, <<"B">>, <<"A", "C">>}

NumConceptsInputs == {0, 1, 2, 5}

MaxDifficultyInputs == {50, 80}

PreferenceInputs == {"balanced", "progressive", "review", "visual"}

\* The knowledge vectors and weak lists paths are created from.
CreateInputs ==
    { <<EmptyDict, <<>>>>,
      <<[c \in ConceptSet |-> 60], <<"B">>>>,
      <<[c \in ConceptSet |-> IF c = "A" THEN 85 ELSE 60], <<>>>> }

\* The latest masteries paths are updated with.
UpdateInputs ==
    { EmptyDict,
      [c \in {"A"} |-> 85],
      [c \in ConceptSet |-> IF c = "B" THEN 90 ELSE 20] }

\* ---- the path component's actions

\* LearningPathGenerator.__init__ and AdaptivePathManager.__init__
PathConstructedOn(config) ==
    /\ concept_difficulty = config[1]
    /\ prerequisites = config[2]
    /\ path_pc = "idle"
    /\ nodes = <<>>
    /\ student_paths = EmptyDict
    /\ path_history = EmptyDict
    /\ path_calls = 0
    /\ path_ret = NoCall

PathInit == \E config \in GeneratorConfigs : PathConstructedOn(config)

\* The path component of the other specifications: constructed on the
\* defaults.
PathConstructed == PathConstructedOn(<<[c \in ConceptSet |-> 50], NoPrerequisites>>)

\* A call of generate_path; the record keeps the call's local `selected`.
CallGeneratePath ==
    /\ path_pc = "idle"
    /\ \E student_knowledge \in PathKnowledgeInputs,
          weak_concepts \in WeakConceptInputs,
          num_concepts \in NumConceptsInputs,
          max_difficulty \in MaxDifficultyInputs,
          learning_preference \in PreferenceInputs :
          \E selected \in SelectedConcepts(student_knowledge, weak_concepts, num_concepts,
                                           max_difficulty, learning_preference) :
             path_ret' = [op |-> "generate_path",
                          args |-> <<student_knowledge, weak_concepts, num_concepts,
                                     max_difficulty, learning_preference>>,
                          err |-> "none",
                          val |-> TopologicalSortConcepts(selected, student_knowledge),
                          selected |-> selected]
    /\ path_pc' = "done"
    /\ UNCHANGED <<concept_difficulty, prerequisites, nodes, student_paths,
                   path_history, path_calls>>
    /\ UNCHANGED notPath

\* The caller drops the returned path.
PathDiscard ==
    /\ path_pc = "done"
    /\ path_pc' = "idle"
    /\ path_ret' = NoCall
    /\ UNCHANGED <<concept_difficulty, prerequisites, nodes, student_paths,
                   path_history, path_calls>>
    /\ UNCHANGED notPath

\* AdaptivePathManager.create_initial_path: the nodes of the generated path
\* are new objects; student_paths[student_id] and the one entry of
\* path_history[student_id] are two lists of the same references.
CreateInitialPath ==
    /\ path_pc = "idle"
    /\ path_calls < MaxPathCalls
    /\ \E student_id \in StudentIds, input \in CreateInputs :
          \E path \in GeneratePath(input[1], input[2], 5, 80, "balanced") :
          LET refs == [i \in 1..Len(path) |-> Len(nodes) + i]
          IN /\ nodes' = nodes \o path
             /\ student_paths' = Put(student_paths, student_id, refs)
             /\ path_history' = Put(path_history, student_id, <<refs>>)
             /\ path_ret' = [op |-> "create_initial_path",
                             args |-> <<student_id, input[1], input[2]>>,
                             err |-> "none", val |-> refs]
    /\ path_calls' = path_calls + 1
    /\ UNCHANGED <<concept_difficulty, prerequisites, path_pc>>
    /\ UNCHANGED notPath

\* AdaptivePathManager.update_path: adapt_path assigns to the node objects of
\* the current path, the adapted list is stored, and then
\* self.path_history[student_id] raises KeyError for a student without a
\* history.
UpdatePath ==
    /\ path_pc = "idle"
    /\ path_calls < MaxPathCalls
    /\ \E student_id \in StudentIds, current_mastery \in UpdateInputs :
          LET current_path == Get(student_paths, student_id, <<>>)
              adapted_path == current_path
          IN /\ nodes' = AdaptPath(nodes, current_path, current_mastery)
             /\ student_paths' = Put(student_paths, student_id, adapted_path)
             /\ IF student_id \in DOMAIN path_history
                THEN /\ path_history' =
                          Put(path_history, student_id,
                              Append(path_history[student_id], adapted_path))
                     /\ path_ret' = [op |-> "update_path",
                                     args |-> <<student_id, current_mastery>>,
                                     err |-> "none", val |-> adapted_path]
                ELSE /\ path_history' = path_history
                     /\ path_ret' = [op |-> "update_path",
                                     args |-> <<student_id, current_mastery>>,
                                     err |-> "KeyError", val |-> NoValue]
    /\ path_calls' = path_calls + 1
    /\ UNCHANGED <<concept_difficulty, prerequisites, path_pc>>
    /\ UNCHANGED notPath

\* A call of adapt_path on the path generate_path has just returned, with the
\* knowledge vector of the generation or with other latest values.  The
\* nodes of the list given are assigned to in place and the returned list
\* holds the same nodes; args[1] is the list as it was given.
CallAdaptPath ==
    /\ path_pc = "done"
    /\ path_ret.op = "generate_path"
    /\ \E latest_performance \in UpdateInputs \cup {path_ret.args[1]} :
          LET current_path == path_ret.val
              refs == [i \in 1..Len(current_path) |-> i]
          IN path_ret' = [op |-> "adapt_path",
                          args |-> <<current_path, latest_performance>>,
                          err |-> "none",
                          val |-> AdaptPath(current_path, refs, latest_performance),
                          before |-> path_ret]
    /\ UNCHANGED <<concept_difficulty, prerequisites, path_pc, nodes, student_paths,
                   path_history, path_calls>>
    /\ UNCHANGED notPath

NextPath ==
    \/ CallGeneratePath
    \/ PathDiscard

NextPathAdapt ==
    \/ CallGeneratePath
    \/ CallAdaptPath
    \/ PathDiscard

NextPathManager ==
    \/ CreateInitialPath
    \/ UpdatePath

\* ---- the two per-student managers side by side

\* A pipeline that feeds interaction rows to the profile manager and creates
\* and updates paths on the path manager, in any order.
StudentsRow ==
    /\ interactions_done + path_calls < MaxStudentOps
    /\ UpdateFromInteractionsRow

StudentsCreatePath ==
    /\ interactions_done + path_calls < MaxStudentOps
    /\ CreateInitialPath

StudentsUpdatePath ==
    /\ interactions_done + path_calls < MaxStudentOps
    /\ UpdatePath

NextStudents ==
    \/ StudentsRow
    \/ StudentsCreatePath
    \/ StudentsUpdatePath

\* =================================== LearnerProfile: weak and strong concepts

\* The factorial of n.
RECURSIVE Factorial(_)
Factorial(n) == IF n = 0 THEN 1 ELSE n * Factorial(n - 1)

\* A common denominator of the masteries: a mastery is 0/1 or a fraction
\* over 100 * attempts, and a profile has at most MaxInteractions attempts.
MasteryDen == 100 * Factorial(MaxInteractions)

\* The sort key x[1] of a (concept, mastery) pair: the mastery over MasteryDen.
MasteryKey(m) == m[1] * (MasteryDen \div m[2])

\* The dict get_knowledge_state_vector returns (`knowledge` in the callers);
\* knowledge.items() goes through it in the order of the concept list.
KnowledgeState(profile) ==
    [c \in ConceptSet |-> CalculateMasteryProbability(profile, c)]

\* get_weak_concepts without the sort: the weak concepts in dict order.
GetWeakConcepts_Unsorted(profile, n, threshold) ==
    LET state == KnowledgeState(profile)
        weak == SelectSeq(concepts, LAMBDA c :
                    100 * state[c][1] < threshold * state[c][2])
    IN SubSeq(weak, 1, Min(n, Len(weak)))

\* get_weak_concepts: the concepts with m < threshold (threshold in
\* hundredths), sorted by m, cut by weak[:n] for n >= 0.
GetWeakConcepts(profile, n, threshold) ==
    LET state == KnowledgeState(profile)
        weak == SelectSeq(concepts, LAMBDA c :
                    100 * state[c][1] < threshold * state[c][2])
        keys == [i \in 1..Len(weak) |-> <<MasteryKey(state[weak[i]])>>]
        sorted == SortedBy(weak, keys)
    IN SubSeq(sorted, 1, Min(n, Len(sorted)))

\* get_strong_concepts: the concepts with m >= threshold, sorted by m with
\* reverse=True (which keeps the order of equal keys), cut by strong[:n].
GetStrongConcepts(profile, n, threshold) ==
    LET state == KnowledgeState(profile)
        strong == SelectSeq(concepts, LAMBDA c :
                      100 * state[c][1] >= threshold * state[c][2])
        keys == [i \in 1..Len(strong) |-> <<-MasteryKey(state[strong[i]])>>]
        sorted == SortedBy(strong, keys)
    IN SubSeq(sorted, 1, Min(n, Len(sorted)))

\* n: none, fewer than the concepts, and the default 3.
SelectionSizes == {0, 1, 2, 3}

\* A caller calls get_weak_concepts(n) on a student's profile; the call
\* refreshes the profile's knowledge_state on its way.
CallGetWeakConcepts ==
    /\ \E student_id \in DOMAIN profiles, n \in SelectionSizes :
         /\ profiles' = [profiles EXCEPT ![student_id].knowledge_state =
                            KnowledgeState(profiles[student_id])]
         /\ prof_ret' = [op |-> "get_weak_concepts", args |-> <<student_id, n>>,
                         err |-> "none",
                         val |-> GetWeakConcepts(profiles[student_id], n, 60)]
    /\ UNCHANGED interactions_done
    /\ UNCHANGED notProfile

\* A caller calls get_strong_concepts(n) on a student's profile.
CallGetStrongConcepts ==
    /\ \E student_id \in DOMAIN profiles, n \in SelectionSizes :
         /\ profiles' = [profiles EXCEPT ![student_id].knowledge_state =
                            KnowledgeState(profiles[student_id])]
         /\ prof_ret' = [op |-> "get_strong_concepts", args |-> <<student_id, n>>,
                         err |-> "none",
                         val |-> GetStrongConcepts(profiles[student_id], n, 75)]
    /\ UNCHANGED interactions_done
    /\ UNCHANGED notProfile

\* One iteration of the loop of update_from_interactions on a table whose
\* rows name configured concepts and took 45 seconds each.
UpdateFromConfiguredRow ==
    /\ interactions_done < MaxInteractions
    /\ \E student_id \in StudentIds, concept \in ConceptSet, score \in {0, 1},
          difficulty \in DifficultyInputs :
         LET created == GetOrCreateProfile(student_id)
         IN /\ profiles' = [created EXCEPT ![student_id] =
                   UpdateWithInteraction(@, concept, score, 45, difficulty, None)]
            /\ prof_ret' = [op |-> "update_with_interaction",
                            args |-> <<student_id, concept, score, 45, difficulty>>,
                            err |-> "none", val |-> None]
    /\ interactions_done' = interactions_done + 1
    /\ UNCHANGED notProfile

\* Interactions and the two selections.
NextProfileSelect ==
    \/ UpdateFromConfiguredRow
    \/ CallGetWeakConcepts
    \/ CallGetStrongConcepts

\* ============================================================ specifications

NextDKT ==
    \/ DKTDiscard
    \/ TraceBegin
    \/ TraceStep
    \/ TraceReturn
    \/ CallPredictNextState
    \/ CallPredictPerformance
    \/ CallEstimateSteps

DKTConstructed ==
    /\ learning_rate = 2
    /\ forget_rate = 1
    /\ DKTIdle
    /\ current_knowledge = initial_knowledge
    /\ dkt_ret = NoCall

InitDKT == DKTInit /\ ProfInit /\ AdaptorConstructed /\ QuizConstructed
    /\ PathConstructed

SpecDKT == InitDKT /\ [][NextDKT]_vars

InitProfile == ProfInit /\ DKTConstructed /\ AdaptorConstructed /\ QuizConstructed
    /\ PathConstructed

SpecProfile == InitProfile /\ [][NextProfile]_vars

SpecProfileSelect == InitProfile /\ [][NextProfileSelect]_vars

InitAdaptor == AdaptorInit /\ DKTConstructed /\ ProfInit /\ QuizConstructed
    /\ PathConstructed

SpecAdaptor == InitAdaptor /\ [][NextAdaptor]_vars

InitQuiz == QuizInit /\ DKTConstructed /\ ProfInit /\ AdaptorConstructed
    /\ PathConstructed

SpecQuiz == InitQuiz /\ [][NextQuiz]_vars

SpecQuizRecord == InitQuiz /\ [][NextQuizRecord]_vars

SpecQuizLifetime == InitQuiz /\ [][NextQuizLifetime]_vars

SpecQuizShared == InitQuiz /\ [][NextQuizShared]_vars

SpecQuizSession == InitQuiz /\ [][NextQuizSession]_vars

InitPath == PathInit /\ DKTConstructed /\ ProfInit /\ AdaptorConstructed
    /\ QuizConstructed

SpecPath == InitPath /\ [][NextPath]_vars

SpecPathAdapt == InitPath /\ [][NextPathAdapt]_vars

SpecPathManager == InitPath /\ [][NextPathManager]_vars

InitStudents == PathConstructedOn(ExampleGenerator) /\ DKTConstructed /\ ProfInit
    /\ AdaptorConstructed /\ QuizConstructed

SpecStudents == InitStudents /\ [][NextStudents]_vars

\* ================================================================== claims

\* The concept argument of the last tracer call that takes one.
CallConcept == dkt_ret.args[2]

\* The rows trace_student replays: those of the student it was called for.
ReplayedRows ==
    SelectSeq(dkt_ret.args[1], LAMBDA r : r.student_id = dkt_ret.args[2])

\* C2: with both rates in [0,1], predict_next_state maps a mastery m in [0,1]
\* to a mastery in [m, 1] on a correct response and in [0, m] on an incorrect
\* one; every mastery of a replay from the 0.3 prior (the running dict, and
\* the before and after values of every trajectory entry) lies in [0,1].
C2_UpdateStaysInRange ==
    /\ (trace_pc = "done" /\ dkt_ret.op = "predict_next_state" /\ dkt_ret.err = "none") =>
          LET m == dkt_ret.args[1][CallConcept]
              next == dkt_ret.val[CallConcept]
          IN IF dkt_ret.args[3] # 0
             THEN m <= next /\ next <= Scale
             ELSE 0 <= next /\ next <= m
    /\ \A c \in DOMAIN knowledge : 0 <= knowledge[c] /\ knowledge[c] <= Scale
    /\ \A i \in 1..Len(trajectory) :
          LET e == trajectory[i]
          IN /\ 0 <= e.knowledge_before /\ e.knowledge_before <= Scale
             /\ 0 <= e.knowledge_after /\ e.knowledge_after <= Scale
             /\ IF e.is_correct # 0
                THEN e.knowledge_before <= e.knowledge_after
                ELSE e.knowledge_after <= e.knowledge_before

\* C2 witness: a replay that has applied a correct and an incorrect update,
\* each of which moved the mastery.
C2_Witness ==
    /\ trace_pc = "loop"
    /\ \E i, j \in 1..Len(trajectory) :
          /\ trajectory[i].is_correct = 1
          /\ trajectory[i].knowledge_after > trajectory[i].knowledge_before
          /\ trajectory[j].is_correct = 0
          /\ trajectory[j].knowledge_after < trajectory[j].knowledge_before

\* C8: a tracer call for a concept that is not in the configured concept list
\* ends in an error (for trace_student: when a replayed row names such a
\* concept), and the dict passed in is as it was.
C8_UnknownConceptFails ==
    trace_pc = "done" =>
        /\ (dkt_ret.op \in {"predict_next_state", "predict_performance",
                            "estimate_steps_to_mastery"}
             /\ CallConcept \notin ConceptSet) =>
               (dkt_ret.err # "none" /\ current_knowledge = dkt_ret.args[1])
        /\ (dkt_ret.op = "trace_student"
             /\ \E i \in 1..Len(ReplayedRows) : ReplayedRows[i].concept \notin ConceptSet) =>
               dkt_ret.err # "none"

\* The profile of a student, as get_or_create_profile would give it.
ProfileOf(ps, student_id) ==
    IF student_id \in DOMAIN ps THEN ps[student_id] ELSE LearnerProfile(student_id)

\* C3: in every state reached by update_with_interaction calls,
\* calculate_mastery_probability is in [0,1] for every concept of every
\* profile, configured or not, and is 0 for a concept without an attempt; the
\* vector get_knowledge_state_vector returns holds the same.
C3_MasteryInUnitInterval ==
    /\ \A s \in DOMAIN profiles : \A c \in AllConcepts :
          LET m == CalculateMasteryProbability(profiles[s], c)
              attempted == /\ c \in DOMAIN profiles[s].concept_metrics
                           /\ profiles[s].concept_metrics[c].attempts > 0
          IN /\ m[2] > 0
             /\ 0 <= m[1] /\ m[1] <= m[2]
             /\ ~attempted => m[1] = 0
    /\ prof_ret.op = "get_knowledge_state_vector" =>
          \A c \in DOMAIN prof_ret.val :
             0 <= prof_ret.val[c][1] /\ prof_ret.val[c][1] <= prof_ret.val[c][2]

\* C3 witness: a profile with a concept whose accuracy plus bonuses exceeds 1
\* (so the clip acts), a concept whose mastery is strictly between 0 and 1,
\* and a configured concept without any attempt.
C3_Witness ==
    \E s \in DOMAIN profiles : \E c1, c2 \in DOMAIN profiles[s].concept_metrics :
        LET raw == CalculateMasteryProbability_NoClip(profiles[s], c1)
            mid == CalculateMasteryProbability(profiles[s], c2)
        IN /\ raw[1] > raw[2]
           /\ 0 < mid[1] /\ mid[1] < mid[2]
           /\ \E c3 \in ConceptSet : c3 \notin DOMAIN profiles[s].concept_metrics

\* C9: an interaction for a concept outside the configured concept set is
\* rejected with an error, and neither the per-concept metrics nor the overall
\* metrics of the student's profile change.
C9_UnknownConceptRejected ==
    [][(/\ interactions_done' = interactions_done + 1
        /\ prof_ret'.op = "update_with_interaction"
        /\ prof_ret'.args[2] \notin ConceptSet)
       => LET before == ProfileOf(profiles, prof_ret'.args[1])
              after == ProfileOf(profiles', prof_ret'.args[1])
          IN /\ prof_ret'.err # "none"
             /\ after.concept_metrics = before.concept_metrics
             /\ after.overall_metrics = before.overall_metrics]_vars

\* The pass flags of the last three get_next_difficulty calls.
LastThreeFlags == SumSeq(LastN(response_history, 3))

\* C6: after a get_next_difficulty call that leaves at least three flags
\* (flag = 1 iff recent_accuracy > 0.65, the call's own flag being the last):
\* two or three 1s among the last three move the tier up one step, Hard
\* staying Hard; no 1 moves it down one step, Easy staying Easy; exactly one 1
\* leaves it where it was.  The returned tier is the adaptor's tier.
C6_TierStep ==
    (da_ret.op = "get_next_difficulty") =>
        /\ Len(response_history) >= 1
        /\ response_history[Len(response_history)]
             = (IF da_ret.args[1] > 65 THEN 1 ELSE 0)
        /\ da_ret.val = difficulty_levels[difficulty_idx + 1]
        /\ Len(response_history) >= 3 =>
             /\ LastThreeFlags >= 2 =>
                   difficulty_idx = (IF da_ret.before = 2 THEN 2 ELSE da_ret.before + 1)
             /\ LastThreeFlags = 0 =>
                   difficulty_idx = (IF da_ret.before = 0 THEN 0 ELSE da_ret.before - 1)
             /\ LastThreeFlags = 1 => difficulty_idx = da_ret.before

\* C6 witness: a call that raised the tier on exactly two passes of three,
\* the accuracy of the failed one being exactly 0.65.
C6_Witness ==
    /\ da_ret.op = "get_next_difficulty"
    /\ Len(response_history) >= 3
    /\ LastThreeFlags = 2
    /\ da_ret.args[1] = 65
    /\ difficulty_idx = da_ret.before + 1

\* The correct answers among the last (up to) five responses.
RecentCorrect ==
    LET recent == LastN(responses, 5)
    IN SumSeq([i \in 1..Len(recent) |-> recent[i].is_correct])

\* The rolling accuracy is strictly between 0.3 and 0.8.
RecentAccuracyUnstable ==
    LET n == Min(5, Len(responses))
    IN 3 * n < 10 * RecentCorrect /\ 10 * RecentCorrect < 8 * n

\* C4: the quiz has a hard cap of 10 questions: with 10 or more responses
\* recorded, should_continue_quiz returns False.
C4_HardCapOfTen ==
    (quiz_ret.op = "should_continue_quiz" /\ Len(responses) >= 10) =>
        quiz_ret.val = FALSE

\* C5: should_continue_quiz returns True with fewer than 3 responses; with 3
\* or more it returns True only if the mean correctness of the last (up to)
\* 5 responses is strictly between 0.3 and 0.8.
C5_ContinueOnlyWhileUnstable ==
    (quiz_ret.op = "should_continue_quiz") =>
        /\ Len(responses) < 3 => quiz_ret.val = TRUE
        /\ (Len(responses) >= 3 /\ quiz_ret.val = TRUE) => RecentAccuracyUnstable

\* The presented list before the last select_next_question call that
\* returned a question.
PresentedBefore == SubSeq(questions_presented, 1, Len(questions_presented) - 1)

WasPresented(question_id) ==
    \E i \in 1..Len(PresentedBefore) : PresentedBefore[i] = question_id

\* C7: a question select_next_question returns is a question of the concept
\* asked for and is the new last entry of the session's presented list; it
\* was presented before in this session only if every question of the
\* concept was.
C7_UnseenQuestionsFirst ==
    (quiz_ret.op = "select_next_question" /\ quiz_ret.val # <<>>) =>
        LET id == quiz_ret.val[1]
            ofConcept == GetQuestionsByConcept(quiz_ret.args[2])
        IN /\ questions_presented # <<>>
           /\ questions_presented[Len(questions_presented)] = id
           /\ \E i \in 1..Len(ofConcept) : ofConcept[i].question_id = id
           /\ WasPresented(id) =>
                 \A i \in 1..Len(ofConcept) : WasPresented(ofConcept[i].question_id)

\* C7 witness: a call that returned a question not yet presented although
\* the question that sorts first for its arguments had been presented.
C7_Witness ==
    /\ quiz_ret.op = "select_next_question"
    /\ quiz_ret.val # <<>>
    /\ ~WasPresented(quiz_ret.val[1])
    /\ \E i \in 1..Len(questions) :
          /\ questions[i].concept = quiz_ret.args[2]
          /\ WasPresented(questions[i].question_id)
          /\ LET mine == CHOOSE j \in 1..Len(questions) :
                             questions[j].question_id = quiz_ret.val[1]
             IN quiz_ret.args[4] = "True"
                /\ GetDifficultyScore(questions[i]) > GetDifficultyScore(questions[mine])

\* C1: every node generate_path returns passes the three filters on the
\* knowledge vector it was called with (a missing concept counts as mastery
\* 0.0): its concept's mastery is below 0.85, its difficulty is at most
\* max_difficulty, and each of its prerequisites has mastery at least 0.6.
C1_NodesPassFilters ==
    (path_ret.op = "generate_path") =>
        LET student_knowledge == path_ret.args[1]
            max_difficulty == path_ret.args[4]
        IN \A i \in 1..Len(path_ret.val) :
              LET concept == path_ret.val[i].concept
                  prereqs == prerequisites[concept]
              IN /\ Get(student_knowledge, concept, 0) < 85
                 /\ concept_difficulty[concept] <= max_difficulty
                 /\ \A j \in 1..Len(prereqs) :
                       Get(student_knowledge, prereqs[j], 0) >= 60

\* C1 witness: a call that returned a node with two prerequisites while one
\* concept was left out for its mastery of 0.85 or more and another for its
\* difficulty above max_difficulty.
C1_Witness ==
    /\ path_ret.op = "generate_path"
    /\ \E i \in 1..Len(path_ret.val) : Len(path_ret.val[i].prerequisites) = 2
    /\ \E c \in ConceptSet :
          /\ Get(path_ret.args[1], c, 0) >= 85
          /\ \A i \in 1..Len(path_ret.val) : path_ret.val[i].concept # c
    /\ \E c \in ConceptSet :
          /\ Get(path_ret.args[1], c, 0) < 85
          /\ concept_difficulty[c] > path_ret.args[4]
          /\ \A i \in 1..Len(path_ret.val) : path_ret.val[i].concept # c

\* C10: update_path for a student for whom no path was created either
\* completes with student_paths and path_history both updated, or fails and
\* leaves student_paths and path_history as they were before the call.
C10_UpdatePathAllOrNothing ==
    [][(/\ path_calls' # path_calls
        /\ path_ret'.op = "update_path"
        /\ path_ret'.args[1] \notin DOMAIN path_history)
       => \/ /\ path_ret'.err = "none"
             /\ path_ret'.args[1] \in DOMAIN student_paths'
             /\ path_ret'.args[1] \in DOMAIN path_history'
          \/ /\ path_ret'.err # "none"
             /\ student_paths' = student_paths
             /\ path_history' = path_history]_vars

\* What a student's current path shows: the node dicts its list refers to.
PathShown(objects, paths, student_id) ==
    IF student_id \in DOMAIN paths
    THEN <<[i \in 1..Len(paths[student_id]) |-> objects[paths[student_id][i]]]>>
    ELSE <<>>

\* What a student's path history shows, entry by entry.
HistoryShown(objects, history, student_id) ==
    IF student_id \in DOMAIN history
    THEN <<[k \in 1..Len(history[student_id]) |->
              [i \in 1..Len(history[student_id][k]) |->
                  objects[history[student_id][k][i]]]]>>
    ELSE <<>>

\* The profile a student has, if any.
ProfileShown(ps, student_id) ==
    IF student_id \in DOMAIN ps THEN <<ps[student_id]>> ELSE <<>>

\* C11: a row processed for student s leaves the profile of every other
\* student as it was, and a create_initial_path or update_path call for s
\* leaves the current path and the path history of every other student as
\* they were, whatever was done before for either student.
C11_OtherStudentsUnchanged ==
    [][/\ interactions_done' # interactions_done =>
            \A t \in StudentIds \ {prof_ret'.args[1]} :
                ProfileShown(profiles', t) = ProfileShown(profiles, t)
       /\ path_calls' # path_calls =>
            \A t \in StudentIds \ {path_ret'.args[1]} :
                /\ PathShown(nodes', student_paths', t) = PathShown(nodes, student_paths, t)
                /\ HistoryShown(nodes', path_history', t)
                     = HistoryShown(nodes, path_history, t)]_vars

\* C11 witness: an update_path call has changed a node of its student's path
\* while the other student has a path with nodes and a third operation was a
\* path call too.
C11_Witness ==
    /\ path_ret.op = "update_path"
    /\ path_ret.err = "none"
    /\ \E i \in 1..Len(path_ret.val) : nodes[path_ret.val[i]].status = "completed"
    /\ \E t \in DOMAIN student_paths \ {path_ret.args[1]} : student_paths[t] # <<>>

\* C12: every entry of a student's path_history is a snapshot: an update_path
\* call leaves what each entry recorded before it shows (the mastery, tier
\* and status of each of its nodes) as it was.
C12_HistoryEntriesAreSnapshots ==
    [][(/\ path_calls' # path_calls
        /\ path_ret'.op = "update_path"
        /\ path_ret'.args[1] \in DOMAIN path_history)
       => LET student_id == path_ret'.args[1]
              before == HistoryShown(nodes, path_history, student_id)[1]
              after == HistoryShown(nodes', path_history', student_id)[1]
          IN \A k \in 1..Len(before) : \A i \in 1..Len(before[k]) :
                /\ after[k][i].current_mastery = before[k][i].current_mastery
                /\ after[k][i].bloom_level = before[k][i].bloom_level
                /\ after[k][i].status = before[k][i].status]_vars

\* The 0.3 prior.
Prior == (3 * Scale) \div 10

\* The mastery of a concept after the first n entries of a trajectory: the
\* knowledge_after of its last entry among them, the prior if it has none.
RECURSIVE MasteryAfterEntries(_, _, _)
MasteryAfterEntries(entries, n, concept) ==
    IF n = 0 THEN Prior
    ELSE IF entries[n].concept = concept THEN entries[n].knowledge_after
    ELSE MasteryAfterEntries(entries, n - 1, concept)

\* The update of one mastery by one outcome, computed on a dict that holds
\* the concept alone.
UpdatedAlone(mastery, concept, is_correct) ==
    PredictNextState([c \in {concept} |-> mastery], concept, is_correct).val[concept]

\* A trace_student call has returned.
TraceReturned == trace_pc = "done" /\ dkt_ret.op = "trace_student" /\ dkt_ret.err = "none"

\* C13: a returned trace_student call has replayed exactly the rows of its
\* student, in non-decreasing timestamp order whatever their order in the
\* table: the trajectory has one entry per such row, every entry's
\* knowledge_before is its concept's mastery after the earlier entries (the
\* 0.3 prior if there is none), its knowledge_after is that mastery updated
\* by the entry's outcome, and the final state holds every configured
\* concept's mastery after the last entry.
C13_ReplayInTimestampOrder ==
    TraceReturned =>
        LET entries == dkt_ret.val.trajectory
            final == dkt_ret.val.final
            n == Len(entries)
        IN /\ n = Len(ReplayedRows)
           /\ \E p \in [1..n -> 1..n] :
                 /\ \A i, j \in 1..n : i # j => p[i] # p[j]
                 /\ \A i \in 1..n :
                       /\ entries[i].timestamp = ReplayedRows[p[i]].timestamp
                       /\ entries[i].concept = ReplayedRows[p[i]].concept
                       /\ entries[i].is_correct = ReplayedRows[p[i]].score
           /\ \A i \in 1..(n - 1) : entries[i].timestamp <= entries[i + 1].timestamp
           /\ \A i \in 1..n :
                 /\ entries[i].knowledge_before
                      = MasteryAfterEntries(entries, i - 1, entries[i].concept)
                 /\ entries[i].knowledge_after
                      = UpdatedAlone(entries[i].knowledge_before, entries[i].concept,
                                     entries[i].is_correct)
           /\ DOMAIN final = ConceptSet
           /\ \A c \in ConceptSet : final[c] = MasteryAfterEntries(entries, n, c)

\* C13 witness: a returned call whose table gives two rows of the student on
\* one concept in decreasing timestamp order, the second update starting
\* from the result of the first.
C13_Witness ==
    /\ TraceReturned
    /\ Len(dkt_ret.args[1]) >= 2
    /\ dkt_ret.args[1][1].student_id = dkt_ret.args[2]
    /\ dkt_ret.args[1][2].student_id = dkt_ret.args[2]
    /\ dkt_ret.args[1][1].timestamp > dkt_ret.args[1][2].timestamp
    /\ dkt_ret.args[1][1].concept = dkt_ret.args[1][2].concept
    /\ dkt_ret.val.trajectory[2].knowledge_before # Prior

\* The outcomes of a concept's own entries of a trajectory, in order.
OwnOutcomes(entries, concept) ==
    LET own == SelectSeq(entries, LAMBDA e : e.concept = concept)
    IN [i \in 1..Len(own) |-> own[i].is_correct]

\* A mastery updated by a sequence of outcomes, one after the other.
RECURSIVE ReplayOwn(_, _, _)
ReplayOwn(mastery, outcomes, concept) ==
    IF outcomes = <<>> THEN mastery
    ELSE ReplayOwn(UpdatedAlone(mastery, concept, Head(outcomes)), Tail(outcomes), concept)

\* C14: predict_next_state(state, c, outcome) returns a dict with the keys of
\* state in which the mastery of c is a function of state[c] and the outcome
\* alone and every other mastery is the one of state, and leaves state as it
\* was; the final mastery of a concept after a trace is the prior updated by
\* the outcomes of that concept's own events alone.
C14_UpdateIsLocal ==
    /\ (trace_pc = "done" /\ dkt_ret.op = "predict_next_state" /\ dkt_ret.err = "none") =>
          LET state == dkt_ret.args[1]
          IN /\ DOMAIN dkt_ret.val = DOMAIN state
             /\ dkt_ret.val[CallConcept]
                  = UpdatedAlone(state[CallConcept], CallConcept, dkt_ret.args[3])
             /\ \A c \in DOMAIN state \ {CallConcept} : dkt_ret.val[c] = state[c]
             /\ current_knowledge = state
    /\ TraceReturned =>
          \A c \in ConceptSet :
             dkt_ret.val.final[c]
               = ReplayOwn(Prior, OwnOutcomes(dkt_ret.val.trajectory, c), c)

\* C14 witness: a predict_next_state call that changed the mastery of its
\* concept in a dict that holds other concepts at other masteries.
C14_Witness ==
    /\ trace_pc = "done"
    /\ dkt_ret.op = "predict_next_state"
    /\ dkt_ret.err = "none"
    /\ dkt_ret.val[CallConcept] # dkt_ret.args[1][CallConcept]
    /\ \E c \in DOMAIN dkt_ret.args[1] \ {CallConcept} :
          /\ dkt_ret.args[1][c] # dkt_ret.args[1][CallConcept]
          /\ dkt_ret.args[1][c] > 0

\* The tier of a mastery, in hundredths.
TierOf(mastery) ==
    CASE mastery < 20 -> "Remember"
      [] mastery >= 20 /\ mastery < 40 -> "Understand"
      [] mastery >= 40 /\ mastery < 60 -> "Apply"
      [] mastery >= 60 /\ mastery < 75 -> "Analyze"
      [] mastery >= 75 /\ mastery < 90 -> "Evaluate"
      [] OTHER -> "Create"

\* C15: adapt_path returns as many nodes as it is given, with the same
\* concepts in the same order; each node's mastery is the latest value of
\* its concept, or the one it had when the concept has no latest value; its
\* tier is the tier of that mastery; its status is 'completed' if that
\* mastery is at least 0.85 and 'in-progress' otherwise.  Called on a path
\* just generated with the knowledge vector of the generation, it leaves
\* every node's mastery and tier as generated and every node 'in-progress'.
C15_AdaptKeepsNodes ==
    (path_ret.op = "adapt_path") =>
        LET given == path_ret.args[1]
            latest == path_ret.args[2]
            adapted == path_ret.val
        IN /\ Len(adapted) = Len(given)
           /\ \A i \in 1..Len(given) :
                 LET mastery == IF given[i].concept \in DOMAIN latest
                                THEN latest[given[i].concept]
                                ELSE given[i].current_mastery
                 IN /\ adapted[i].concept = given[i].concept
                    /\ adapted[i].current_mastery = mastery
                    /\ adapted[i].bloom_level = TierOf(mastery)
                    /\ adapted[i].status
                         = (IF mastery >= 85 THEN "completed" ELSE "in-progress")
           /\ latest = path_ret.before.args[1] =>
                 \A i \in 1..Len(given) :
                    /\ adapted[i].current_mastery = given[i].current_mastery
                    /\ adapted[i].bloom_level = given[i].bloom_level
                    /\ adapted[i].status = "in-progress"

\* C15 witness: an adapt_path call on a path of two or more nodes that
\* completed a node at exactly 0.85, which stays in the path, and kept the
\* mastery of a node whose concept has no latest value.
C15_Witness ==
    /\ path_ret.op = "adapt_path"
    /\ Len(path_ret.val) >= 2
    /\ \E i, j \in 1..Len(path_ret.val) :
          /\ path_ret.val[i].status = "completed"
          /\ path_ret.val[i].current_mastery = 85
          /\ path_ret.val[j].concept \notin DOMAIN path_ret.args[2]
          /\ path_ret.val[j].current_mastery > 0

\* The concepts of the nodes of a path, in order.
ConceptsOf(path) == [i \in 1..Len(path) |-> path[i].concept]

\* The priority score as the specification gives it, times 100000.
SpecifiedScore(concept, student_knowledge, weak_concepts, preference) ==
    LET m == Get(student_knowledge, concept, 0)
        d == concept_difficulty[concept]
        weak == InList(concept, weak_concepts)
    IN CASE preference = "balanced" ->
              (500 * (100 - m) + 300 * d) * (IF weak THEN 13 ELSE 10)
         [] preference = "progressive" -> (400 * (100 - m) + 600 * d) * 10
         [] preference = "review" -> 1000 * (100 - m) * (IF weak THEN 20 ELSE 10)
         [] OTHER -> 10000 * (100 - m)

\* C16: the concepts of a generated path are the num_concepts candidates
\* with the highest score, a tie going to the concept earlier in the
\* configured list; the score is 0.5*(1-m) + 0.3*d (times 1.3 if weak) for
\* balanced, 0.4*(1-m) + 0.6*d for progressive, (1-m) (times 2.0 if weak) for
\* review and (1-m) for any other preference.
C16_HighestScoresSelected ==
    (path_ret.op = "generate_path") =>
        LET candidates == CandidateConcepts(concepts, path_ret.args[1], path_ret.args[4])
            better(c1, c2) ==
                LET s1 == SpecifiedScore(c1, path_ret.args[1], path_ret.args[2], path_ret.args[5])
                    s2 == SpecifiedScore(c2, path_ret.args[1], path_ret.args[2], path_ret.args[5])
                IN s1 > s2 \/ (s1 = s2 /\ IndexOf(concepts, c1) < IndexOf(concepts, c2))
            rank(c) == Cardinality({i \in 1..Len(candidates) : better(candidates[i], c)})
            top == {candidates[i] : i \in {j \in 1..Len(candidates) :
                                             rank(candidates[j]) < path_ret.args[3]}}
        IN {path_ret.val[i].concept : i \in 1..Len(path_ret.val)} = top

\* The ordering key of a selected concept.
OrderingKey(concept, selected, student_knowledge) ==
    <<Cardinality({i \in 1..Len(prerequisites[concept]) :
                      InList(prerequisites[concept][i], selected)}),
      concept_difficulty[concept],
      -(100 - Get(student_knowledge, concept, 0))>>

\* C17: the nodes of a generated path are the selected concepts, none
\* dropped, in ascending order of (number of the concept's prerequisites in
\* the selection, difficulty, -(1 - mastery)), equal tuples in selection
\* order.  On the example generator with A at 0.8, B at 0.1 and nothing else
\* to select, weak = [B], balanced, num_concepts = 2, the path is A then B.
C17_OrderedByKey ==
    (path_ret.op = "generate_path") =>
        LET selected == path_ret.selected
            path == ConceptsOf(path_ret.val)
            key(c) == OrderingKey(c, selected, path_ret.args[1])
        IN /\ Len(path) = Len(selected)
           /\ \A i \in 1..Len(selected) : InList(selected[i], path)
           /\ \A i, j \in 1..Len(path) : i < j =>
                 \/ LexLess(key(path[i]), key(path[j]))
                 \/ /\ key(path[i]) = key(path[j])
                    /\ IndexOf(selected, path[i]) < IndexOf(selected, path[j])
           /\ \A i \in 1..Len(path) : path_ret.val[i].position = i
           /\ (/\ <<concept_difficulty, prerequisites>> = ExampleGenerator
               /\ path_ret.args[1] = [c \in ConceptSet |->
                      CASE c = "A" -> 80 [] c = "B" -> 10 [] OTHER -> 85]
               /\ path_ret.args[2] = <<"B">>
               /\ path_ret.args[3] = 2
               /\ path_ret.args[5] = "balanced")
              => path = <<"A", "B">>

\* C17 witness: the scenario itself, where B is selected before A and the
\* ordering puts A first.
C17_Witness ==
    /\ path_ret.op = "generate_path"
    /\ <<concept_difficulty, prerequisites>> = ExampleGenerator
    /\ path_ret.args[1] = [c \in ConceptSet |->
           CASE c = "A" -> 80 [] c = "B" -> 10 [] OTHER -> 85]
    /\ path_ret.args[2] = <<"B">>
    /\ path_ret.args[3] = 2
    /\ path_ret.args[5] = "balanced"
    /\ path_ret.selected = <<"B", "A">>
    /\ ConceptsOf(path_ret.val) = <<"A", "B">>

\* The bank's statistics of the questions other than the one with this id
\* are the same before and after the step.
OtherStatisticsKept(question_id) ==
    /\ Len(questions') = Len(questions)
    /\ \A i \in 1..Len(questions) :
          questions[i].question_id # question_id => questions'[i] = questions[i]

\* C18: record_response with a question id of the bank appends exactly one
\* response to the session's responses and raises that question's attempts
\* by one and its correct count by the correctness flag, leaving the
\* statistics of every other question as they were; with an id that is not
\* in the bank it returns no result and changes neither the responses nor
\* any statistics.
C18_RecordResponseEffect ==
    [][quiz_ret'.op = "record_response" =>
         LET question_id == quiz_ret'.args[1]
             is_correct == quiz_ret'.args[3]
         IN IF question_id \in QuestionIds
            THEN /\ quiz_ret'.val # <<>>
                 /\ Len(responses') = Len(responses) + 1
                 /\ SubSeq(responses', 1, Len(responses)) = responses
                 /\ responses'[Len(responses')].question_id = question_id
                 /\ responses'[Len(responses')].is_correct = is_correct
                 /\ OtherStatisticsKept(question_id)
                 /\ \A i \in 1..Len(questions) :
                       questions[i].question_id = question_id =>
                          /\ questions'[i].attempts = questions[i].attempts + 1
                          /\ questions'[i].correct = questions[i].correct + is_correct
            ELSE /\ quiz_ret'.val = <<>>
                 /\ responses' = responses
                 /\ questions' = questions]_vars

\* A correct response to a question of the bank has been recorded after a
\* response to another question.
C18_Witness ==
    /\ quiz_ret.op = "record_response"
    /\ quiz_ret.val # <<>>
    /\ quiz_ret.args[3] = 1
    /\ Len(responses) = 2
    /\ responses[1].question_id # responses[2].question_id
    /\ \E i \in 1..Len(questions) :
          /\ questions[i].question_id = quiz_ret.args[1]
          /\ questions[i].attempts = 1
          /\ questions[i].correct = 1

\* C19: select_next_question for a concept that has no question in the bank
\* returns an empty result, not a question of another concept, and leaves
\* the presented list as it was.
C19_NoQuestionForConcept ==
    [][(/\ quiz_ret'.op = "select_next_question"
        /\ GetQuestionsByConcept(quiz_ret'.args[2]) = <<>>) =>
          /\ quiz_ret'.val = <<>>
          /\ questions_presented' = questions_presented
          /\ questions' = questions]_vars

\* A question was asked for a concept without questions while the session
\* had presented questions and the bank still had questions not presented.
C19_Witness ==
    /\ quiz_ret.op = "select_next_question"
    /\ questions # <<>>
    /\ GetQuestionsByConcept(quiz_ret.args[2]) = <<>>
    /\ quiz_ret.val = <<>>
    /\ questions_presented # <<>>
    /\ \E i \in 1..Len(questions) :
          \A j \in 1..Len(questions_presented) :
             questions_presented[j] # questions[i].question_id

\* The masteries of a concept after 0, 1, ..., n successive correct-response
\* updates: seq holds the first of them and ends with the last one reached.
RECURSIVE MasteriesAfterCorrect(_, _, _)
MasteriesAfterCorrect(seq, concept, n) ==
    IF Len(seq) > n THEN seq
    ELSE MasteriesAfterCorrect(Append(seq, UpdatedAlone(seq[Len(seq)], concept, 1)),
                               concept, n)

\* An estimate_steps_to_mastery call has returned a number.
StepsReturned ==
    /\ trace_pc = "done"
    /\ dkt_ret.op = "estimate_steps_to_mastery"
    /\ dkt_ret.err = "none"

\* C20: with p_learn in [0,1], estimate_steps_to_mastery returns a number
\* in 0..100: 0 if the concept's mastery is at or above the threshold;
\* otherwise the least k >= 1 such that k successive correct-response
\* updates bring the mastery to the threshold or above, or 100 if no
\* k <= 100 does; and the masteries after 0, 1, ..., 100 updates never
\* decrease and never exceed 1.
C20_StepsToMastery ==
    StepsReturned =>
        LET concept == dkt_ret.args[2]
            mastery_threshold == dkt_ret.args[3]
            mastery == dkt_ret.args[1][concept]
        IN /\ dkt_ret.val \in 0..100
           /\ IF mastery >= mastery_threshold
              THEN dkt_ret.val = 0
              ELSE LET masteries == MasteriesAfterCorrect(<<mastery>>, concept, 100)
                       after == [k \in 0..100 |-> masteries[k + 1]]
                       Reached(k) == after[k] >= mastery_threshold
                   IN /\ dkt_ret.val >= 1
                      /\ \A k \in 1..(dkt_ret.val - 1) : ~Reached(k)
                      /\ dkt_ret.val < 100 => Reached(dkt_ret.val)
                      /\ \A k \in 1..100 :
                            after[k - 1] <= after[k] /\ after[k] <= Scale

\* A call on a mastery at the prior has returned a number of steps that is
\* neither the first step nor the cap.
C20_Witness ==
    /\ StepsReturned
    /\ dkt_ret.val > 1
    /\ dkt_ret.val < 100
    /\ dkt_ret.args[1][dkt_ret.args[2]] = Prior

\* A predict_next_state call has returned a dict.
UpdateReturned ==
    /\ trace_pc = "done"
    /\ dkt_ret.op = "predict_next_state"
    /\ dkt_ret.err = "none"

\* C21: predict_next_state maps the mastery m of its concept to
\* m + (1 - m) * p_learn on a correct response and to max(0, m - m * p_forget)
\* on an incorrect one (both sides multiplied by Unit, the denominator of
\* the rates); with the defaults 0.10 and 0.05, the mastery 0.3 becomes 0.37
\* on a correct response and 0.285 on an incorrect one.
C21_UpdateFormula ==
    UpdateReturned =>
        LET m == dkt_ret.args[1][CallConcept]
            next == dkt_ret.val[CallConcept]
            is_correct == dkt_ret.args[3]
        IN /\ is_correct = 1 => Unit * next = Unit * m + (Scale - m) * learning_rate
           /\ is_correct = 0 => Unit * next = Max(0, Unit * m - m * forget_rate)
           /\ (learning_rate = 2 /\ forget_rate = 1 /\ 10 * m = 3 * Scale) =>
                 IF is_correct = 1 THEN 100 * next = 37 * Scale
                 ELSE 1000 * next = 285 * Scale

\* The default tracer has updated the mastery 0.3 by a correct response.
C21_Witness ==
    /\ UpdateReturned
    /\ learning_rate = 2
    /\ forget_rate = 1
    /\ dkt_ret.args[1][CallConcept] = Prior
    /\ dkt_ret.args[3] = 1
    /\ 100 * dkt_ret.val[CallConcept] = 37 * Scale

\* The mastery of concept c in the profile of the student of the last
\* profile call, as a fraction.
MasteryNow(c) == CalculateMasteryProbability(profiles[prof_ret.args[1]], c)

\* Fractions with positive denominators, compared by cross-multiplication.
FracLess(a, b) == a[1] * b[2] < b[1] * a[2]

\* Concept c is earlier than concept d in the configured concept list.
ConfiguredBefore(c, d) ==
    \E i, j \in 1..Len(concepts) : i < j /\ concepts[i] = c /\ concepts[j] = d

\* Concept c comes before concept d in a weak list: lower mastery, or the
\* same mastery and earlier in the configured list.
WeakBefore(c, d) ==
    \/ FracLess(MasteryNow(c), MasteryNow(d))
    \/ ~FracLess(MasteryNow(d), MasteryNow(c)) /\ ConfiguredBefore(c, d)

\* Concept c comes before concept d in a strong list.
StrongBefore(c, d) ==
    \/ FracLess(MasteryNow(d), MasteryNow(c))
    \/ ~FracLess(MasteryNow(c), MasteryNow(d)) /\ ConfiguredBefore(c, d)

\* The configured concepts below 0.6, and those at or above 0.75.
WeakSet == {c \in ConceptSet : FracLess(MasteryNow(c), <<6, 10>>)}

StrongSet == {c \in ConceptSet : ~FracLess(MasteryNow(c), <<75, 100>>)}

MetricsOf(ps, student_id, concept) ==
    LET profile == ProfileOf(ps, student_id)
    IN IF concept \in DOMAIN profile.concept_metrics
       THEN profile.concept_metrics[concept] ELSE DefaultMetrics

\* The step is an update_with_interaction call for this student and concept.
Updates(student_id, concept) ==
    /\ interactions_done' = interactions_done + 1
    /\ prof_ret'.op = "update_with_interaction"
    /\ prof_ret'.args[1] = student_id
    /\ prof_ret'.args[2] = concept

\* C23: over any sequence of update_with_interaction calls, the attempts,
\* correct, incorrect and total_time counters of a concept never decrease;
\* its streak is 0 right after an incorrect response to it, one more than
\* before after a correct one, and changes in no other step, so it is the
\* number of consecutive correct responses at the end of the concept's own
\* history.
C23_CountersAndStreak ==
    [][\A s \in StudentIds, c \in AllConcepts :
         LET before == MetricsOf(profiles, s, c)
             after == MetricsOf(profiles', s, c)
         IN /\ after.attempts >= before.attempts
            /\ after.correct >= before.correct
            /\ after.incorrect >= before.incorrect
            /\ after.total_time >= before.total_time
            /\ after.streak =
                 IF Updates(s, c)
                 THEN (IF prof_ret'.args[3] = 1 THEN before.streak + 1 ELSE 0)
                 ELSE before.streak]_vars

\* An incorrect response has just reset the streak of a concept that had
\* one correct response, while another concept of the student keeps its
\* streak of one.
C23_Witness ==
    /\ prof_ret.op = "update_with_interaction"
    /\ prof_ret.args[3] = 0
    /\ LET s == prof_ret.args[1]
           c == prof_ret.args[2]
       IN /\ s \in DOMAIN profiles
          /\ MetricsOf(profiles, s, c).attempts = 2
          /\ MetricsOf(profiles, s, c).correct = 1
          /\ MetricsOf(profiles, s, c).streak = 0
          /\ \E d \in AllConcepts \ {c} : MetricsOf(profiles, s, d).streak = 1

\* The step records a response to the question with this id.
Records(question_id) ==
    /\ quiz_ret'.op = "record_response"
    /\ quiz_ret'.val # <<>>
    /\ quiz_ret'.args[1] = question_id

\* C24: the statistics of the bank's questions live as long as the engine:
\* start_new_quiz empties the presented list and the responses and leaves
\* every question's attempts, correct and total_time as they are; a
\* question's attempts grows by one in a step that records a response to
\* it and changes in no other step, so it is the number of responses ever
\* recorded for it, in this session or an earlier one.
C24_StatisticsOutliveSessions ==
    [][/\ Len(questions') = Len(questions)
       /\ \A i \in 1..Len(questions) :
             questions'[i].attempts =
                questions[i].attempts
                  + (IF Records(questions[i].question_id) THEN 1 ELSE 0)
       /\ quiz_ret'.op = "start_new_quiz" =>
             /\ questions_presented' = <<>>
             /\ responses' = <<>>
             /\ questions' = questions]_vars

\* A question has been answered in two sessions: its attempts count both
\* responses while the session holds the second one only.
C24_Witness ==
    /\ quiz_ret.op = "record_response"
    /\ Len(responses) = 1
    /\ \E i \in 1..Len(questions) :
          /\ questions[i].question_id = responses[1].question_id
          /\ questions[i].attempts = 2

\* The positions in the bank of the questions the last select_next_question
\* call drew from: the questions of the concept that had not been presented
\* before the call, or all questions of the concept when there was none.
PoolPositions ==
    LET ofConcept == {i \in 1..Len(questions) : questions[i].concept = quiz_ret.args[2]}
        unseen == {i \in ofConcept : ~WasPresented(questions[i].question_id)}
    IN IF unseen = {} THEN ofConcept ELSE unseen

\* How far a question is from the front of the order the last call sorted
\* by: the negated score after a correct answer, the score after an
\* incorrect one, the distance of the score from 3 * mastery without one (in
\* hundredths).
SelectionRank(i) ==
    LET score == GetDifficultyScore(questions[i])
        distance == 100 * score - 3 * quiz_ret.args[3]
    IN IF quiz_ret.args[4] = "True" THEN -100 * score
       ELSE IF quiz_ret.args[4] = "False" THEN 100 * score
       ELSE IF distance < 0 THEN -distance ELSE distance

\* C25: the question select_next_question returns is, in the pool it draws
\* from, of the highest difficulty score when previous_correct is true, of
\* the lowest when it is false, and of the score nearest to 3 * mastery when
\* no previous correctness is given; among the questions of the pool that
\* are equal in this it is the earliest in the bank.
C25_SelectedByDifficulty ==
    (quiz_ret.op = "select_next_question" /\ quiz_ret.val # <<>>) =>
        \E at \in PoolPositions :
           /\ questions[at].question_id = quiz_ret.val[1]
           /\ \A i \in PoolPositions :
                 /\ SelectionRank(at) <= SelectionRank(i)
                 /\ i < at => SelectionRank(at) < SelectionRank(i)

\* After a correct answer the first of two questions of the highest score
\* in the pool was returned, the pool holding an easier question as well.
C25_Witness ==
    /\ quiz_ret.op = "select_next_question"
    /\ quiz_ret.val # <<>>
    /\ quiz_ret.args[4] = "True"
    /\ \E at, tied, easier \in PoolPositions :
          /\ questions[at].question_id = quiz_ret.val[1]
          /\ at < tied
          /\ SelectionRank(tied) = SelectionRank(at)
          /\ SelectionRank(easier) > SelectionRank(at)

\* C26: in a path generate_path returns, a concept that is in the path
\* together with one of its prerequisites comes after it: the prerequisite
\* has the smaller position.
C26_PrerequisitesFirst ==
    (path_ret.op = "generate_path") =>
        \A i, j \in 1..Len(path_ret.val) :
           InList(path_ret.val[j].concept, prerequisites[path_ret.val[i].concept]) =>
              path_ret.val[j].position < path_ret.val[i].position

\* The sum of one field of the concept metrics over the concepts S.
RECURSIVE MetricsTotal(_, _, _)
MetricsTotal(metrics, S, field) ==
    IF S = {} THEN 0
    ELSE LET c == CHOOSE x \in S : TRUE
         IN metrics[c][field] + MetricsTotal(metrics, S \ {c}, field)

\* C27: in every state reached by update_with_interaction calls with correct
\* in {0,1}, each concept's metrics have attempts = correct + incorrect and
\* 0 <= streak <= correct <= attempts, and the overall totals of a profile
\* have total_questions = total_attempts = the sum of the concepts' attempts
\* and total_correct = the sum of the concepts' correct.
C27_MetricsConsistent ==
    \A s \in DOMAIN profiles :
       LET metrics == profiles[s].concept_metrics
           overall == profiles[s].overall_metrics
       IN /\ \A c \in DOMAIN metrics :
                /\ metrics[c].attempts = metrics[c].correct + metrics[c].incorrect
                /\ 0 <= metrics[c].streak
                /\ metrics[c].streak <= metrics[c].correct
                /\ metrics[c].correct <= metrics[c].attempts
          /\ overall.total_questions = overall.total_attempts
          /\ overall.total_attempts = MetricsTotal(metrics, DOMAIN metrics, "attempts")
          /\ overall.total_correct = MetricsTotal(metrics, DOMAIN metrics, "correct")

\* A profile with three responses over two concepts, one of which has a
\* correct response followed by an incorrect one.
C27_Witness ==
    \E s \in DOMAIN profiles :
       LET metrics == profiles[s].concept_metrics
       IN /\ profiles[s].overall_metrics.total_questions = 3
          /\ profiles[s].overall_metrics.total_correct = 2
          /\ \E c, d \in DOMAIN metrics :
                /\ c # d
                /\ metrics[c].correct = 1 /\ metrics[c].incorrect = 1
                /\ metrics[c].streak = 0
                /\ metrics[d].attempts = 1

\* The concepts that pass the three filters of the last generate_path call:
\* mastery below 0.85 (0.0 when missing), difficulty at most max_difficulty,
\* every prerequisite at mastery 0.6 or above.
QualifyingConcepts ==
    LET student_knowledge == path_ret.args[1]
    IN {c \in ConceptSet :
          /\ Get(student_knowledge, c, 0) < 85
          /\ concept_difficulty[c] <= path_ret.args[4]
          /\ \A j \in 1..Len(prerequisites[c]) :
                Get(student_knowledge, prerequisites[c][j], 0) >= 60}

\* C28: the path generate_path returns for num_concepts >= 0 holds each
\* concept at most once, its nodes have the positions 1, 2, ..., n in list
\* order, and n is the smaller of num_concepts and the number of concepts
\* that pass the three filters, so every such concept is in the path when
\* there are at most num_concepts of them.
C28_PathShape ==
    (path_ret.op = "generate_path") =>
        LET path == ConceptsOf(path_ret.val)
            num_concepts == path_ret.args[3]
        IN /\ \A i, j \in 1..Len(path) : i # j => path[i] # path[j]
           /\ \A i \in 1..Len(path) : path_ret.val[i].position = i
           /\ Len(path) = Min(num_concepts, Cardinality(QualifyingConcepts))
           /\ \A i \in 1..Len(path) : path[i] \in QualifyingConcepts
           /\ Cardinality(QualifyingConcepts) <= num_concepts =>
                 \A c \in QualifyingConcepts : InList(c, path)

\* A call with num_concepts = 2 for which all three concepts pass the
\* filters has returned two nodes.
C28_Witness ==
    /\ path_ret.op = "generate_path"
    /\ path_ret.args[3] = 2
    /\ Cardinality(QualifyingConcepts) = 3
    /\ Len(path_ret.val) = 2

\* The adaptor's tier is one of the three levels and is the level at its
\* index.
TierConsistent ==
    /\ current_difficulty \in {"Easy", "Medium", "Hard"}
    /\ difficulty_idx \in 0..2
    /\ current_difficulty = LevelAt(difficulty_idx)

\* C29: in every state of a DifficultyAdaptor reached by get_next_difficulty
\* and reset calls, current_difficulty is Easy, Medium or Hard and is
\* difficulty_levels[difficulty_idx]; one get_next_difficulty call moves
\* the index by at most one; and a get_next_difficulty call that leaves
\* fewer than three flags recorded since construction or reset leaves the
\* tier where construction or reset put it.
C29_TierWellFormed ==
    /\ []TierConsistent
    /\ [][/\ da_ret'.op = "get_next_difficulty" =>
              /\ Len(response_history') = Len(response_history) + 1
              /\ difficulty_idx' - difficulty_idx \in {-1, 0, 1}
              /\ Len(response_history') < 3 =>
                    /\ difficulty_idx' = difficulty_idx
                    /\ current_difficulty' = current_difficulty
          /\ da_ret'.op = "reset" =>
              /\ response_history' = <<>>
              /\ current_difficulty' = da_ret'.args[1]]_vars

\* Two passing flags have been recorded since a reset to Easy and the tier
\* is still Easy.
C29_Witness ==
    /\ da_ret.op = "get_next_difficulty"
    /\ response_history = <<1, 1>>
    /\ current_difficulty = "Easy"
    /\ difficulty_idx = 0

\* The positions in the bank of the questions a select_next_question call
\* for a concept draws from when the session has presented the ids of
\* the list `presented`.
PoolFor(presented, concept) ==
    LET ofConcept == {i \in 1..Len(questions) : questions[i].concept = concept}
        unseen == {i \in ofConcept :
                     \A j \in 1..Len(presented) : presented[j] # questions[i].question_id}
    IN IF unseen = {} THEN ofConcept ELSE unseen

\* The rank of the question at position i for a mastery (in hundredths) and
\* a previous correctness; the lowest rank is selected.
RankFor(i, student_mastery, previous_correct) ==
    LET score == GetDifficultyScore(questions[i])
        distance == 100 * score - 3 * student_mastery
    IN IF previous_correct = "True" THEN -100 * score
       ELSE IF previous_correct = "False" THEN 100 * score
       ELSE IF distance < 0 THEN -distance ELSE distance

\* The result of a call, <<>> or <<id>>, as a function of the bank, the
\* presented list and the arguments other than the student id.
ResultFor(presented, concept, student_mastery, previous_correct) ==
    LET pool == PoolFor(presented, concept)
        rank(i) == RankFor(i, student_mastery, previous_correct)
    IN IF pool = {} THEN <<>>
       ELSE LET at == CHOOSE a \in pool :
                         \A i \in pool : /\ rank(a) <= rank(i)
                                         /\ i < a => rank(a) < rank(i)
            IN <<questions[at].question_id>>

\* C30: what select_next_question returns and the presented list it leaves
\* are determined by the bank, the presented list before the call and the
\* arguments other than student_id, so two runs of the same calls that
\* differ in the student ids only return the same questions and reach the
\* same presented list, and a question presented to one student counts as
\* presented for every other student of the session.
C30_SelectionIgnoresStudent ==
    [][quiz_ret'.op = "select_next_question" =>
         LET result == ResultFor(questions_presented, quiz_ret'.args[2],
                                 quiz_ret'.args[3], quiz_ret'.args[4])
         IN /\ quiz_ret'.val = result
            /\ questions_presented' = questions_presented \o result]_vars

\* Student 2 has asked for a question with the arguments student 1 had
\* asked with before, and got another question than student 1, whose
\* question counted as presented.
C30_Witness ==
    /\ quiz_ret.op = "select_next_question"
    /\ quiz_ret.args[1] = 2
    /\ Len(questions_presented) = 2
    /\ quiz_ret.val = <<questions_presented[2]>>
    /\ questions_presented[1] # questions_presented[2]
    /\ <<questions_presented[1]>> =
          ResultFor(<<>>, quiz_ret.args[2], quiz_ret.args[3], quiz_ret.args[4])

====
